---------------------------- MODULE Spec2Model ----------------------------
(***************************************************************************)
(* State-machine model of the Scalable-MPMC-Queue library: the SCQ ring    *)
(* (src/src/scq.cpp), the SCQP ring in pointer and fallback mode           *)
(* (src/src/scqp.cpp) and the linked LSCQ (src/src/lscq.cpp) with its node *)
(* pool (src/include/lscq/object_pool.hpp).                                *)
(*                                                                         *)
(* Every thread runs the code of one call at a time.  One action is one    *)
(* access to shared memory (an atomic load, store, read-modify-write or a  *)
(* double-word CAS) together with the thread-local computation that        *)
(* follows it up to the next shared access.  Atomic accesses interleave    *)
(* sequentially consistently; the one exception, stated where it is        *)
(* modelled, is a release store followed by an acquire load of another     *)
(* location.                                                               *)
(***************************************************************************)
EXTENDS Integers, Sequences, FiniteSets, TLC

(***************************************************************************)
(* Bounds of the model.                                                    *)
(***************************************************************************)
\* Number of threads.
NumThreads == 3
\* Requested ring sizes are drawn from 1..MaxScqSizeArg (the constructors
\* clamp them to at least 4 and round them up to a power of two).
MaxScqSizeArg == 4
\* head_/tail_ tickets are handed out while they are below this cap.
MaxTicket == 18
\* Number of LSCQ nodes the factory can create.
MaxNodes == 3
\* Calls made by the single thread of a sequential scenario.
MaxSeqOps == 9
\* Bound of the dequeue's re-reads of a slot that is not safe (1024 in
\* src/src/scqp.cpp:294; every re-read of the spin sees the same entry).
MAX_INNER_RETRIES == 2
\* Bound of the LSCQ dequeue's waits for the link of a finalized node (1024
\* in src/src/lscq.cpp:166).
MAX_WAIT_RETRIES == 2
\* Shards of the node pool (twice the hardware concurrency in the code).
ShardCount == 2
\* Number of objects the factory of a pool under test can make.
MaxObjects == 4
\* BatchSize of ObjectPoolTLSv2 (8 by default in the code).
BatchSize == 1

Threads == 1..NumThreads
Nodes == 1..MaxNodes

\* nullptr, for user pointers and for Node*.
nullptr == 0
\* std::numeric_limits<T>::max(): SCQ<T>::kEmpty and SCQP<T>::kEmptyIndex
\* (the largest value of the model's integers).
kEmpty == 2147483647
kEmptyIndex == kEmpty

(***************************************************************************)
(* Pure helpers of the rings.                                              *)
(***************************************************************************)
\* Width of the wrap-around subtraction in cycle_less (64 in the code; every
\* cycle of the model is far below half of the range).
CycleWrap == 1073741824

cycle_less(a, b) == ((a - b) % CycleWrap) >= (CycleWrap \div 2)

is_power_of_two(v) == v # 0 /\ \E k \in 0..8 : v = 2 ^ k

RECURSIVE round_up_loop(_, _)
round_up_loop(out, v) == IF out < v THEN round_up_loop(out * 2, v) ELSE out

round_up_pow2(v) ==
    IF v <= 1 THEN 1
    ELSE IF is_power_of_two(v) THEN v
    ELSE round_up_loop(1, v)

pack_cycle_flags(cycle, is_safe) == cycle * 2 + (IF is_safe THEN 1 ELSE 0)
unpack_cycle(cycle_flags) == cycle_flags \div 2
unpack_is_safe(cycle_flags) == (cycle_flags % 2) # 0

\* cache_remap for 16-byte entries, four per cache line.
cache_remap(idx, scqsize) ==
    LET line == idx \div 4
        offset == idx % 4
        num_lines == scqsize \div 4
    IN  offset * num_lines + line

Entry(cycle_flags, index_or_ptr) ==
    [cycle_flags |-> cycle_flags, index_or_ptr |-> index_or_ptr]

\* The ring size the constructors derive from their argument.
ClampSize(scqsize) == round_up_pow2(IF scqsize < 4 THEN 4 ELSE scqsize)

\* SCQ<T>::SCQ(scqsize).  The fields of SCQP that SCQ does not have keep
\* their values for ever.
ScqNew(scqsize) ==
    LET size == ClampSize(scqsize)
    IN  [ cls |-> "scq",
          scqsize_ |-> size,
          qsize_ |-> size \div 2,
          bottom_ |-> size - 1,
          using_fallback_ |-> FALSE,
          entries |-> [i \in 0..(size - 1) |-> Entry(pack_cycle_flags(0, TRUE), size - 1)],
          ptr_array_ |-> [i \in 0..(size - 1) |-> nullptr],
          head_ |-> size,
          tail_ |-> size,
          threshold_ |-> size + (size \div 2) - 1,
          deq_success_ |-> 0,
          enq_success_ |-> 0 ]

\* SCQP<T>::SCQP(scqsize, force_fallback).  entries stands for entries_p_ in
\* pointer mode and for entries_i_ in fallback mode.
ScqpNew(scqsize, force_fallback) ==
    LET size == ClampSize(scqsize)
        empty == IF force_fallback THEN kEmptyIndex ELSE nullptr
    IN  [ cls |-> "scqp",
          scqsize_ |-> size,
          qsize_ |-> size \div 2,
          bottom_ |-> size - 1,
          using_fallback_ |-> force_fallback,
          entries |-> [i \in 0..(size - 1) |-> Entry(pack_cycle_flags(0, TRUE), empty)],
          ptr_array_ |-> [i \in 0..(size - 1) |-> nullptr],
          head_ |-> size,
          tail_ |-> size,
          threshold_ |-> (size * 2) - 1,
          deq_success_ |-> 0,
          enq_success_ |-> 0 ]


(***************************************************************************)
(* State.                                                                  *)
(***************************************************************************)
VARIABLES
    kind,   \* the class under test: "ncq", "scq", "scqp", "lscq" or a pool class
    ring,   \* ring[n]: the SCQ/SCQP object n (node n's scqp for an LSCQ)
    lq,     \* the LSCQ object: its atomics, its nodes' links and its pool
    th,     \* th[t]: the call thread t is running and its local variables
    prog,   \* prog[t]: the calls thread t still has to make
    hist,   \* what the calls returned so far (observation only)
    opool,  \* the object pool under test (none when a queue is under test)
    pt,     \* pt[t]: what thread t does on the pool and its local variables
    slot,   \* one Entry with its stripe mutex (none unless cas2 is under test)
    ct,     \* ct[t]: the call thread t makes on the Entry and its local variables
    ebr,    \* the EBRManager under test (none unless it is under test)
    et      \* et[t]: what thread t does on the EBRManager and its local variables

\* The variables of the queues and the variables of the object pools.
queueVars == <<kind, ring, lq, th, prog, hist>>
poolVars == <<opool, pt>>
\* The variables of the tests of cas2 and of the EBRManager.
extVars == <<slot, ct, ebr, et>>

vars == <<kind, ring, lq, th, prog, hist, opool, pt, slot, ct, ebr, et>>

\* No Entry and no EBRManager: a queue or a pool is under test.
SlotNone == [path |-> "none"]
EbrNone == [cls |-> "none"]

\* A thread between two calls.
Idle ==
    [ pc |-> "idle", cont |-> "done", op |-> "none", arg |-> 0, ret |-> 0,
      n |-> 0, tk |-> 0, ent |-> Entry(0, 0), head_now |-> 0, br |-> "none",
      inner_retries |-> 0, value |-> 0, held |-> FALSE, quiet |-> FALSE,
      node |-> 0, next |-> 0, is_finalized |-> FALSE, retry |-> 0,
      wait_retries |-> 0, new_node |-> 0, guarded |-> FALSE ]

\* Return from a ring operation: back to the caller's continuation.
Ret(rec, v) ==
    [rec EXCEPT !.pc = rec.cont, !.ret = v, !.tk = 0, !.ent = Entry(0, 0),
                !.head_now = 0, !.br = "none", !.inner_retries = 0, !.value = 0]

SeqSum(f) == LET RECURSIVE Sum(_)
                 Sum(S) == IF S = {} THEN 0
                           ELSE LET t == CHOOSE t \in S : TRUE
                                IN  Len(f[t]) + Sum(S \ {t})
             IN  Sum(Threads)

Range(s) == {s[i] : i \in 1..Len(s)}

\* Values whose enqueue returned true, values returned by a dequeue.
Sent == UNION {Range(hist.sent[t]) : t \in Threads}
Got == UNION {Range(hist.got[t]) : t \in Threads}
\* Number of values enqueued (the call returned true) and not yet returned.
Present == SeqSum(hist.sent) - SeqSum(hist.got)

DeqInFlight(t) == th[t].pc # "idle" /\ th[t].op = "deq"

\* The value a dequeue returns for "empty".
EmptyRet == IF kind \in {"ncq", "scq"} THEN kEmpty ELSE nullptr

(***************************************************************************)
(* The callers: a thread takes the next call of its program.  "enq" passes *)
(* a fresh valid value, "bad" one the queue must reject, "any" is one of   *)
(* enqueue and dequeue.                                                    *)
(***************************************************************************)
NextVal == hist.nenq + 1

EnqArg ==
    IF kind = "scq" THEN NextVal % ring[1].bottom_ ELSE NextVal

BadArgs ==
    IF kind = "scq" THEN {kEmpty, ring[1].bottom_}
    ELSE IF kind = "ncq" THEN {kEmpty} ELSE {nullptr}

Calls(class) ==
    CASE class = "enq" -> {<<"enq", EnqArg>>}
      [] class = "deq" -> {<<"deq", 0>>}
      [] class = "bad" -> {<<"enq", a>> : a \in BadArgs}
      [] class = "any" -> {<<"enq", EnqArg>>, <<"deq", 0>>}
      [] class = "dtor" -> {<<"dtor", 0>>}
      [] class = "reset" -> {<<"reset", 0>>}

\* A thread that is not in a call and has no call left before the next join.
Waiting(t) ==
    th[t].pc = "idle" /\ (IF Len(prog[t]) = 0 THEN TRUE ELSE Head(prog[t]) = "sync")

Invoke(self) ==
    /\ th[self].pc = "idle"
    /\ prog[self] # << >>
    /\ Head(prog[self]) # "sync"
    /\ \E c \in Calls(Head(prog[self])) :
          LET others == Threads \ {self}
              alone == \A u \in others : ~DeqInFlight(u)
              me == [Idle EXCEPT
                        !.pc = kind \o "_" \o c[1],
                        !.op = c[1],
                        !.arg = c[2],
                        !.n = IF kind = "lscq" THEN 0 ELSE 1,
                        !.held = (c[1] = "deq" /\ alone /\ Present > 0),
                        !.quiet = \A u \in others : Waiting(u)]
          IN  /\ th' = [t \in Threads |->
                          IF t = self THEN me
                          ELSE IF c[1] = "deq" THEN [th[t] EXCEPT !.held = FALSE]
                          ELSE th[t]]
              /\ hist' = [hist EXCEPT !.nenq = IF c[1] = "enq" /\ c[2] = EnqArg
                                               THEN @ + 1 ELSE @]
    /\ prog' = [prog EXCEPT ![self] = Tail(@)]
    /\ UNCHANGED <<poolVars, extVars, kind, lq, ring>>

Respond(self) ==
    /\ th[self].pc = "done"
    /\ LET r == th[self]
           last == [op |-> r.op, arg |-> r.arg, ret |-> r.ret,
                    present |-> Present, held |-> r.held, quiet |-> r.quiet]
       IN  hist' = [hist EXCEPT
                      !.sent[self] = IF r.op = "enq" /\ r.ret = TRUE
                                     THEN Append(@, r.arg) ELSE @,
                      !.got[self] = IF r.op = "deq" /\ r.ret # EmptyRet
                                    THEN Append(@, r.ret) ELSE @,
                      !.last[self] = last]
    /\ th' = [th EXCEPT ![self] = Idle]
    /\ UNCHANGED <<poolVars, extVars, kind, lq, ring, prog>>

\* The join of a test: when every thread has finished its calls of the
\* phase, the threads go on with the next phase.
Sync ==
    /\ \A t \in Threads : Waiting(t)
    /\ \E t \in Threads : prog[t] # << >>
    /\ prog' = [t \in Threads |-> IF prog[t] # << >> THEN Tail(prog[t]) ELSE << >>]
    /\ UNCHANGED <<poolVars, extVars, kind, ring, lq, th, hist>>

NoCall ==
    [op |-> "none", arg |-> 0, ret |-> 0, present |-> 0, held |-> FALSE,
     quiet |-> FALSE]

HistInit ==
    [ sent |-> [t \in Threads |-> << >>],
      got |-> [t \in Threads |-> << >>],
      nenq |-> 0,
      last |-> [t \in Threads |-> NoCall] ]

(***************************************************************************)
(* NCQ<T> (src/src/ncq.cpp).  cycle_flags of an NCQ entry is the bare      *)
(* cycle.  compare_exchange_weak may fail although the value compares      *)
(* equal.                                                                  *)
(***************************************************************************)
\* round_up(value, alignment)
round_up(value, alignment) == ((value + (alignment - 1)) \div alignment) * alignment

\* NCQ<T>::NCQ(capacity)
NcqNew(capacity) ==
    LET c1 == IF capacity = 0 THEN 1 ELSE capacity
        c2 == IF c1 < 4 THEN 4 ELSE c1
        n == round_up(c2, 4)
    IN  [ cls |-> "ncq",
          capacity_ |-> n,
          entries |-> [i \in 0..(n - 1) |-> Entry(0, 0)],
          head_ |-> n,
          tail_ |-> n ]

NcqSlot(r, ticket) == cache_remap(ticket % r.capacity_, r.capacity_)
NcqCycle(r, ticket) == ticket \div r.capacity_

\* if (index == kEmpty) return false;
NcqEnqueue(self) ==
    /\ th[self].pc = "ncq_enq"
    /\ th' = [th EXCEPT ![self] =
                IF th[self].arg = kEmpty THEN Ret(@, FALSE)
                ELSE [@ EXCEPT !.pc = "ncq_e_tail"]]
    /\ UNCHANGED <<poolVars, extVars, kind, lq, ring, prog, hist>>

\* t = tail_.load()
NcqEnqTail(self) ==
    /\ th[self].pc = "ncq_e_tail"
    /\ th' = [th EXCEPT ![self] =
                [@ EXCEPT !.pc = "ncq_e_load", !.tk = ring[th[self].n].tail_,
                          !.ent = Entry(0, 0)]]
    /\ UNCHANGED <<poolVars, extVars, kind, lq, ring, prog, hist>>

\* An enqueue that takes tail again, without helping, when it finds the
\* slot at the cycle of tail.
NcqEnqLoadNoHelp(self) ==
    /\ th[self].pc = "ncq_e_load"
    /\ LET r == ring[th[self].n]
           t == th[self].tk
           ent == r.entries[NcqSlot(r, t)]
           cycle_e == ent.cycle_flags
           cycle_t == NcqCycle(r, t)
       IN  th' = [th EXCEPT ![self] =
                    IF cycle_e + 1 # cycle_t THEN [@ EXCEPT !.pc = "ncq_e_tail"]
                    ELSE [@ EXCEPT !.ent = ent, !.pc = "ncq_e_cas"]]
    /\ UNCHANGED <<poolVars, extVars, kind, lq, ring, prog, hist>>

\* ent = entry_load(&entries_[remapped_j]) and the two tests of its cycle.
NcqEnqLoad(self) ==
    /\ th[self].pc = "ncq_e_load"
    /\ LET r == ring[th[self].n]
           t == th[self].tk
           ent == r.entries[NcqSlot(r, t)]
           cycle_e == ent.cycle_flags
           cycle_t == NcqCycle(r, t)
       IN  th' = [th EXCEPT ![self] =
                    IF cycle_e = cycle_t THEN [@ EXCEPT !.pc = "ncq_e_help"]
                    ELSE IF cycle_e + 1 # cycle_t THEN [@ EXCEPT !.pc = "ncq_e_tail"]
                    ELSE [@ EXCEPT !.ent = ent, !.pc = "ncq_e_cas"]]
    /\ UNCHANGED <<poolVars, extVars, kind, lq, ring, prog, hist>>

\* tail_.compare_exchange_weak(t, t + 1)
TailCasWeak(r, t, ok) ==
    IF ok /\ r.tail_ = t THEN [r EXCEPT !.tail_ = t + 1] ELSE r

\* Help to move tail, then take tail again.
NcqEnqHelp(self) ==
    /\ th[self].pc = "ncq_e_help"
    /\ \E ok \in BOOLEAN :
          ring' = [ring EXCEPT ![th[self].n] = TailCasWeak(@, th[self].tk, ok)]
    /\ th' = [th EXCEPT ![self] = [@ EXCEPT !.pc = "ncq_e_tail"]]
    /\ UNCHANGED <<poolVars, extVars, kind, lq, prog, hist>>

\* cas2(&entries_[remapped_j], expected, desired)
NcqEnqCas(self) ==
    /\ th[self].pc = "ncq_e_cas"
    /\ LET n == th[self].n
           r == ring[n]
           t == th[self].tk
           j == NcqSlot(r, t)
           desired == Entry(NcqCycle(r, t), th[self].arg)
       IN  IF r.entries[j] = th[self].ent
           THEN /\ ring' = [ring EXCEPT ![n].entries[j] = desired]
                /\ th' = [th EXCEPT ![self] = [@ EXCEPT !.pc = "ncq_e_adv"]]
           ELSE /\ th' = [th EXCEPT ![self] = [@ EXCEPT !.pc = "ncq_e_tail"]]
                /\ UNCHANGED ring
    /\ UNCHANGED <<poolVars, extVars, kind, lq, prog, hist>>

\* Try to move tail; return true.
NcqEnqAdvance(self) ==
    /\ th[self].pc = "ncq_e_adv"
    /\ \E ok \in BOOLEAN :
          ring' = [ring EXCEPT ![th[self].n] = TailCasWeak(@, th[self].tk, ok)]
    /\ th' = [th EXCEPT ![self] = Ret(@, TRUE)]
    /\ UNCHANGED <<poolVars, extVars, kind, lq, prog, hist>>

\* h = head_.load()
NcqDequeue(self) ==
    /\ th[self].pc = "ncq_deq"
    /\ th' = [th EXCEPT ![self] =
                [@ EXCEPT !.pc = "ncq_d_load", !.tk = ring[th[self].n].head_,
                          !.ent = Entry(0, 0)]]
    /\ UNCHANGED <<poolVars, extVars, kind, lq, ring, prog, hist>>

\* A dequeue that takes the entry at head whatever its cycle is.
NcqDeqLoadNoCycleTest(self) ==
    /\ th[self].pc = "ncq_d_load"
    /\ LET r == ring[th[self].n]
           ent == r.entries[NcqSlot(r, th[self].tk)]
       IN  th' = [th EXCEPT ![self] = [@ EXCEPT !.ent = ent, !.pc = "ncq_d_cas"]]
    /\ UNCHANGED <<poolVars, extVars, kind, lq, ring, prog, hist>>

\* ent = entry_load(&entries_[remapped_j]); empty if the entry is one cycle
\* behind head, stale head if it is anything else than head's cycle.
NcqDeqLoad(self) ==
    /\ th[self].pc = "ncq_d_load"
    /\ LET r == ring[th[self].n]
           h == th[self].tk
           ent == r.entries[NcqSlot(r, h)]
           cycle_e == ent.cycle_flags
           cycle_h == NcqCycle(r, h)
       IN  th' = [th EXCEPT ![self] =
                    IF cycle_e # cycle_h
                    THEN IF cycle_e + 1 = cycle_h THEN Ret(@, kEmpty)
                         ELSE [@ EXCEPT !.pc = "ncq_deq"]
                    ELSE [@ EXCEPT !.ent = ent, !.pc = "ncq_d_cas"]]
    /\ UNCHANGED <<poolVars, extVars, kind, lq, ring, prog, hist>>

\* head_.compare_exchange_weak(h, h + 1)
NcqDeqCas(self) ==
    /\ th[self].pc = "ncq_d_cas"
    /\ LET n == th[self].n
           h == th[self].tk
       IN  \E ok \in BOOLEAN :
              IF ok /\ ring[n].head_ = h
              THEN /\ ring' = [ring EXCEPT ![n].head_ = h + 1]
                   /\ th' = [th EXCEPT ![self] = Ret(@, th[self].ent.index_or_ptr)]
              ELSE /\ th' = [th EXCEPT ![self] = [@ EXCEPT !.pc = "ncq_deq"]]
                   /\ UNCHANGED ring
    /\ UNCHANGED <<poolVars, extVars, kind, lq, prog, hist>>

(***************************************************************************)
(* SCQ<T>::enqueue (src/src/scq.cpp).                                      *)
(***************************************************************************)
ScqThresholdReset(r) == r.scqsize_ + (r.scqsize_ \div 2) - 1

Slot(r, ticket) == cache_remap(ticket % r.scqsize_, r.scqsize_)
Cycle(r, ticket) == ticket \div r.scqsize_

\* Entry checks: the sentinel and every value >= bottom_ are rejected.
\* An enqueue without the two tests of its argument.
ScqEnqueueAccepts(self) ==
    /\ th[self].pc = "scq_enq"
    /\ th' = [th EXCEPT ![self] = [@ EXCEPT !.pc = "scq_e_faa"]]
    /\ UNCHANGED <<poolVars, extVars, kind, lq, ring, prog, hist>>

ScqEnqueue(self) ==
    /\ th[self].pc = "scq_enq"
    /\ LET r == ring[th[self].n]
           index == th[self].arg
       IN  th' = [th EXCEPT ![self] =
                    IF index = kEmpty \/ index >= r.bottom_
                    THEN Ret(@, FALSE)
                    ELSE [@ EXCEPT !.pc = "scq_e_faa"]]
    /\ UNCHANGED <<poolVars, extVars, kind, lq, ring, prog, hist>>

\* t = tail_.fetch_add(1)
ScqEnqTicket(self) ==
    /\ th[self].pc = "scq_e_faa"
    /\ LET n == th[self].n
       IN  /\ ring[n].tail_ < MaxTicket
           /\ th' = [th EXCEPT ![self] = [@ EXCEPT !.pc = "scq_e_load", !.tk = ring[n].tail_]]
           /\ ring' = [ring EXCEPT ![n].tail_ = @ + 1]
    /\ UNCHANGED <<poolVars, extVars, kind, lq, prog, hist>>

\* The slot test of an enqueue that does not look whether the slot is empty.
ScqEnqLoadOverwrites(self) ==
    /\ th[self].pc = "scq_e_load"
    /\ LET r == ring[th[self].n]
           t == th[self].tk
           ent == r.entries[Slot(r, t)]
           cycle_e == unpack_cycle(ent.cycle_flags)
       IN  th' = [th EXCEPT ![self] =
                    IF cycle_less(cycle_e, Cycle(r, t))
                    THEN [@ EXCEPT !.ent = ent,
                                   !.pc = IF unpack_is_safe(ent.cycle_flags)
                                          THEN "scq_e_cas" ELSE "scq_e_head"]
                    ELSE [@ EXCEPT !.ent = Entry(0, 0), !.pc = "scq_e_faa"]]
    /\ UNCHANGED <<poolVars, extVars, kind, lq, ring, prog, hist>>

\* ent = entry_load(&entries_[j]) and the test of the slot.
ScqEnqLoad(self) ==
    /\ th[self].pc = "scq_e_load"
    /\ LET r == ring[th[self].n]
           t == th[self].tk
           ent == r.entries[Slot(r, t)]
           cycle_e == unpack_cycle(ent.cycle_flags)
       IN  th' = [th EXCEPT ![self] =
                    IF cycle_less(cycle_e, Cycle(r, t)) /\ ent.index_or_ptr = r.bottom_
                    THEN [@ EXCEPT !.ent = ent,
                                   !.pc = IF unpack_is_safe(ent.cycle_flags)
                                          THEN "scq_e_cas" ELSE "scq_e_head"]
                    ELSE [@ EXCEPT !.ent = Entry(0, 0), !.pc = "scq_e_faa"]]
    /\ UNCHANGED <<poolVars, extVars, kind, lq, ring, prog, hist>>

\* The slot is not safe: head_.load() <= t decides.
ScqEnqHead(self) ==
    /\ th[self].pc = "scq_e_head"
    /\ LET r == ring[th[self].n]
       IN  th' = [th EXCEPT ![self] =
                    IF r.head_ <= th[self].tk
                    THEN [@ EXCEPT !.pc = "scq_e_cas"]
                    ELSE [@ EXCEPT !.ent = Entry(0, 0), !.pc = "scq_e_faa"]]
    /\ UNCHANGED <<poolVars, extVars, kind, lq, ring, prog, hist>>

\* A cas2 of enqueue that keeps the IsSafe bit it has read.
ScqEnqCasKeepsSafe(self) ==
    /\ th[self].pc = "scq_e_cas"
    /\ LET n == th[self].n
           r == ring[n]
           t == th[self].tk
           j == Slot(r, t)
           desired == Entry(pack_cycle_flags(Cycle(r, t), unpack_is_safe(th[self].ent.cycle_flags)),
                            th[self].arg)
       IN  IF r.entries[j] = th[self].ent
           THEN /\ ring' = [ring EXCEPT ![n].entries[j] = desired]
                /\ th' = [th EXCEPT ![self] = [@ EXCEPT !.pc = "scq_e_thr"]]
           ELSE /\ th' = [th EXCEPT ![self] = [@ EXCEPT !.pc = "scq_e_load"]]
                /\ UNCHANGED ring
    /\ UNCHANGED <<poolVars, extVars, kind, lq, prog, hist>>

\* cas2(&entries_[j], expected, desired)
ScqEnqCas(self) ==
    /\ th[self].pc = "scq_e_cas"
    /\ LET n == th[self].n
           r == ring[n]
           t == th[self].tk
           j == Slot(r, t)
           desired == Entry(pack_cycle_flags(Cycle(r, t), TRUE), th[self].arg)
       IN  IF r.entries[j] = th[self].ent
           THEN /\ ring' = [ring EXCEPT ![n].entries[j] = desired]
                /\ th' = [th EXCEPT ![self] = [@ EXCEPT !.pc = "scq_e_thr"]]
           ELSE /\ th' = [th EXCEPT ![self] = [@ EXCEPT !.pc = "scq_e_load"]]
                /\ UNCHANGED ring
    /\ UNCHANGED <<poolVars, extVars, kind, lq, prog, hist>>

\* The value is published: reset the threshold if it is not at its reset
\* value, return true.
ScqEnqThreshold(self) ==
    /\ th[self].pc = "scq_e_thr"
    /\ LET n == th[self].n
       IN  ring' = [ring EXCEPT ![n].threshold_ =
                      IF @ # ScqThresholdReset(ring[n])
                      THEN ScqThresholdReset(ring[n]) ELSE @]
    /\ th' = [th EXCEPT ![self] = Ret(@, TRUE)]
    /\ UNCHANGED <<poolVars, extVars, kind, lq, prog, hist>>

(***************************************************************************)
(* SCQ<T>::dequeue (src/src/scq.cpp).                                      *)
(***************************************************************************)
\* threshold_.load() < 0 is the fast empty check.
ScqDequeue(self) ==
    /\ th[self].pc = "scq_deq"
    /\ th' = [th EXCEPT ![self] =
                [@ EXCEPT !.pc = IF ring[th[self].n].threshold_ < 0
                                 THEN "scq_d_chk_h" ELSE "scq_d_faa"]]
    /\ UNCHANGED <<poolVars, extVars, kind, lq, ring, prog, hist>>

\* head_now = head_.load() of the fast empty check.
ScqDeqCheckHead(self) ==
    /\ th[self].pc = "scq_d_chk_h"
    /\ th' = [th EXCEPT ![self] =
                [@ EXCEPT !.pc = "scq_d_chk_t", !.head_now = ring[th[self].n].head_]]
    /\ UNCHANGED <<poolVars, extVars, kind, lq, ring, prog, hist>>

\* A fast empty check that always goes on to the ticket.
ScqDeqCheckTailGoes(self) ==
    /\ th[self].pc = "scq_d_chk_t"
    /\ th' = [th EXCEPT ![self] = [@ EXCEPT !.pc = "scq_d_store", !.br = "go"]]
    /\ UNCHANGED <<poolVars, extVars, kind, lq, ring, prog, hist>>

\* tail_now = tail_.load(): fall through when tail > head, else kEmpty.
ScqDeqCheckTail(self) ==
    /\ th[self].pc = "scq_d_chk_t"
    /\ th' = [th EXCEPT ![self] =
                IF ring[th[self].n].tail_ > th[self].head_now
                THEN [@ EXCEPT !.pc = "scq_d_store", !.br = "go"]
                ELSE Ret(@, kEmpty)]
    /\ UNCHANGED <<poolVars, extVars, kind, lq, ring, prog, hist>>

\* threshold_.store(threshold_reset); then on to the ticket, or return
\* kEmpty after a penalised ticket.
ScqDeqThresholdStore(self) ==
    /\ th[self].pc = "scq_d_store"
    /\ LET n == th[self].n
       IN  ring' = [ring EXCEPT ![n].threshold_ = ScqThresholdReset(ring[n])]
    /\ th' = [th EXCEPT ![self] =
                IF th[self].br = "go"
                THEN [@ EXCEPT !.pc = "scq_d_faa", !.br = "none", !.head_now = 0]
                ELSE Ret(@, kEmpty)]
    /\ UNCHANGED <<poolVars, extVars, kind, lq, prog, hist>>

\* h = head_.fetch_add(1)
ScqDeqTicket(self) ==
    /\ th[self].pc = "scq_d_faa"
    /\ LET n == th[self].n
       IN  /\ ring[n].head_ < MaxTicket
           /\ th' = [th EXCEPT ![self] = [@ EXCEPT !.pc = "scq_d_load", !.tk = ring[n].head_]]
           /\ ring' = [ring EXCEPT ![n].head_ = @ + 1]
    /\ UNCHANGED <<poolVars, extVars, kind, lq, prog, hist>>

\* A dequeue that leaves the entry of an older cycle as it is.
ScqDeqDesiredKeepsCycle(r, ent, cycle_h) == ent

\* What a dequeue with ticket h wants to write over an entry of another cycle.
ScqDeqDesired(r, ent, cycle_h) ==
    IF ent.index_or_ptr = r.bottom_
    THEN Entry(pack_cycle_flags(cycle_h, unpack_is_safe(ent.cycle_flags)), r.bottom_)
    ELSE Entry(pack_cycle_flags(unpack_cycle(ent.cycle_flags), FALSE), ent.index_or_ptr)

\* The slot test of a dequeue that also takes the value of an older cycle.
ScqDeqLoadAnyCycle(self) ==
    /\ th[self].pc = "scq_d_load"
    /\ LET r == ring[th[self].n]
           h == th[self].tk
           ent == r.entries[Slot(r, h)]
           cycle_e == unpack_cycle(ent.cycle_flags)
       IN  th' = [th EXCEPT ![self] =
                    IF cycle_e = Cycle(r, h) \/ cycle_less(cycle_e, Cycle(r, h))
                    THEN IF ~unpack_is_safe(ent.cycle_flags)
                         THEN @
                         ELSE IF ent.index_or_ptr = r.bottom_
                         THEN [@ EXCEPT !.ent = Entry(0, 0), !.pc = "scq_d_tail"]
                         ELSE [@ EXCEPT !.ent = ent, !.pc = "scq_d_or"]
                    ELSE [@ EXCEPT !.ent = Entry(0, 0), !.pc = "scq_d_tail"]]
    /\ UNCHANGED <<poolVars, extVars, kind, lq, ring, prog, hist>>

\* ent = entry_load(&entries_[j]) and the test of the slot.  With the cycle
\* of the ticket and IsSafe clear the loop loads the slot again.
ScqDeqLoad(self) ==
    /\ th[self].pc = "scq_d_load"
    /\ LET r == ring[th[self].n]
           h == th[self].tk
           ent == r.entries[Slot(r, h)]
           cycle_e == unpack_cycle(ent.cycle_flags)
       IN  th' = [th EXCEPT ![self] =
                    IF cycle_e = Cycle(r, h)
                    THEN IF ~unpack_is_safe(ent.cycle_flags)
                         THEN @
                         ELSE IF ent.index_or_ptr = r.bottom_
                         THEN [@ EXCEPT !.ent = Entry(0, 0), !.pc = "scq_d_tail"]
                         ELSE [@ EXCEPT !.ent = ent, !.pc = "scq_d_or"]
                    ELSE IF cycle_less(cycle_e, Cycle(r, h))
                         THEN [@ EXCEPT !.ent = ent, !.pc = "scq_d_cas"]
                         ELSE [@ EXCEPT !.ent = Entry(0, 0), !.pc = "scq_d_tail"]]
    /\ UNCHANGED <<poolVars, extVars, kind, lq, ring, prog, hist>>

\* atomic_or_u64(&entries_[j].index_or_ptr, bottom_): bottom_ has every index
\* bit set, so the word becomes bottom_; the value read before is returned.
ScqDeqConsume(self) ==
    /\ th[self].pc = "scq_d_or"
    /\ LET n == th[self].n
           r == ring[n]
           j == Slot(r, th[self].tk)
       IN  ring' = [ring EXCEPT ![n].entries[j].index_or_ptr = r.bottom_]
    /\ th' = [th EXCEPT ![self] = Ret(@, th[self].ent.index_or_ptr)]
    /\ UNCHANGED <<poolVars, extVars, kind, lq, prog, hist>>

\* cas2(&entries_[j], expected, desired) on an entry of an older cycle.
ScqDeqCas(self) ==
    /\ th[self].pc = "scq_d_cas"
    /\ LET n == th[self].n
           r == ring[n]
           h == th[self].tk
           j == Slot(r, h)
       IN  IF r.entries[j] = th[self].ent
           THEN /\ ring' = [ring EXCEPT ![n].entries[j] =
                               ScqDeqDesired(r, th[self].ent, Cycle(r, h))]
                /\ th' = [th EXCEPT ![self] =
                            [@ EXCEPT !.pc = "scq_d_tail", !.ent = Entry(0, 0)]]
           ELSE /\ th' = [th EXCEPT ![self] =
                            [@ EXCEPT !.pc = "scq_d_load", !.ent = Entry(0, 0)]]
                /\ UNCHANGED ring
    /\ UNCHANGED <<poolVars, extVars, kind, lq, prog, hist>>

\* t = tail_.load(); t <= h + 1 means the ring is empty.
ScqDeqTail(self) ==
    /\ th[self].pc = "scq_d_tail"
    /\ th' = [th EXCEPT ![self] =
                [@ EXCEPT !.pc = "scq_d_sub",
                          !.br = IF ring[th[self].n].tail_ <= th[self].tk + 1 THEN "empty" ELSE "retry"]]
    /\ UNCHANGED <<poolVars, extVars, kind, lq, ring, prog, hist>>

\* prev = threshold_.fetch_sub(1); next = prev - 1.
ScqDeqPenalize(self) ==
    /\ th[self].pc = "scq_d_sub"
    /\ LET n == th[self].n
           next == ring[n].threshold_ - 1
       IN  /\ ring' = [ring EXCEPT ![n].threshold_ = next]
           /\ th' = [th EXCEPT ![self] =
                       IF next <= 0 THEN [@ EXCEPT !.pc = "scq_d_now_h"]
                       ELSE IF th[self].br = "empty" THEN Ret(@, kEmpty)
                       ELSE [@ EXCEPT !.pc = "scq_d_faa", !.br = "none"]]
    /\ UNCHANGED <<poolVars, extVars, kind, lq, prog, hist>>

\* head_now = head_.load() once the threshold is used up.
ScqDeqNowHead(self) ==
    /\ th[self].pc = "scq_d_now_h"
    /\ th' = [th EXCEPT ![self] =
                [@ EXCEPT !.pc = "scq_d_now_t", !.head_now = ring[th[self].n].head_]]
    /\ UNCHANGED <<poolVars, extVars, kind, lq, ring, prog, hist>>

\* tail_now = tail_.load(): reset the threshold, or fixState, or neither;
\* kEmpty is returned in every case.
ScqDeqNowTail(self) ==
    /\ th[self].pc = "scq_d_now_t"
    /\ LET r == ring[th[self].n]
           head_now == th[self].head_now
           tail_now == r.tail_
       IN  th' = [th EXCEPT ![self] =
                    IF tail_now > head_now
                    THEN [@ EXCEPT !.pc = "scq_d_store", !.br = "ret"]
                    ELSE IF head_now > tail_now /\ (head_now - tail_now) > r.scqsize_
                    THEN [@ EXCEPT !.pc = "fix_h", !.br = "ret"]
                    ELSE Ret(@, kEmpty)]
    /\ UNCHANGED <<poolVars, extVars, kind, lq, ring, prog, hist>>

(***************************************************************************)
(* SCQ<T>::fixState and SCQP<T>::fixState (the same code).                 *)
(***************************************************************************)
\* h = head_.load()
FixStateHead(self) ==
    /\ th[self].pc = "fix_h"
    /\ th' = [th EXCEPT ![self] =
                [@ EXCEPT !.pc = "fix_t", !.head_now = ring[th[self].n].head_]]
    /\ UNCHANGED <<poolVars, extVars, kind, lq, ring, prog, hist>>

\* The pc after fixState returned: the caller stores the threshold.
AfterFixState(r) == IF r.cls = "scq" THEN "scq_d_store" ELSE "scqp_d_store"

\* t = tail_.load(); return unless head is more than scqsize ahead.
FixStateTail(self) ==
    /\ th[self].pc = "fix_t"
    /\ LET r == ring[th[self].n]
           h == th[self].head_now
           t == r.tail_
       IN  th' = [th EXCEPT ![self] =
                    IF h <= t \/ (h - t) <= r.scqsize_
                    THEN [@ EXCEPT !.pc = AfterFixState(r), !.head_now = 0, !.tk = 0]
                    ELSE [@ EXCEPT !.pc = "fix_cas", !.tk = t]]
    /\ UNCHANGED <<poolVars, extVars, kind, lq, ring, prog, hist>>

\* tail_.compare_exchange_weak(t, h)
FixStateCas(self) ==
    /\ th[self].pc = "fix_cas"
    /\ LET n == th[self].n
       IN  IF ring[n].tail_ = th[self].tk
           THEN /\ ring' = [ring EXCEPT ![n].tail_ = th[self].head_now]
                /\ th' = [th EXCEPT ![self] =
                            [@ EXCEPT !.pc = AfterFixState(ring[n]),
                                      !.head_now = 0, !.tk = 0]]
           ELSE /\ th' = [th EXCEPT ![self] = [@ EXCEPT !.pc = "fix_h", !.tk = 0]]
                /\ UNCHANGED ring
    /\ UNCHANGED <<poolVars, extVars, kind, lq, prog, hist>>

(***************************************************************************)
(* SCQP<T>::enqueue, enqueue_ptr and enqueue_index (src/src/scqp.cpp).     *)
(* In fallback mode the entry holds the index j and ptr_array_[j] the      *)
(* pointer.                                                                *)
(***************************************************************************)
ScqpThresholdReset(r) == (r.scqsize_ * 2) - 1

\* The empty marker of an entry: nullptr, or kEmptyIndex in fallback mode.
ScqpEmpty(r) == IF r.using_fallback_ THEN kEmptyIndex ELSE nullptr

\* A full check that never reports a full ring.
queue_never_full(head, tail, scqsize) == FALSE

queue_is_full(head, tail, scqsize) == tail >= head /\ (tail - head) >= scqsize

\* SCQP::enqueue: a null pointer is rejected.
ScqpEnqueue(self) ==
    /\ th[self].pc = "scqp_enq"
    /\ th' = [th EXCEPT ![self] =
                IF th[self].arg = nullptr
                THEN Ret(@, FALSE)
                ELSE [@ EXCEPT !.pc = "scqp_e_deqs"]]
    /\ UNCHANGED <<poolVars, extVars, kind, lq, ring, prog, hist>>

\* head = deq_success_.load() at the top of the outer loop.
ScqpEnqLoadDeqSuccess(self) ==
    /\ th[self].pc = "scqp_e_deqs"
    /\ th' = [th EXCEPT ![self] =
                [@ EXCEPT !.pc = "scqp_e_enqs",
                          !.head_now = ring[th[self].n].deq_success_]]
    /\ UNCHANGED <<poolVars, extVars, kind, lq, ring, prog, hist>>

\* tail = enq_success_.load(); a full ring makes the call return false.
ScqpEnqLoadEnqSuccess(self) ==
    /\ th[self].pc = "scqp_e_enqs"
    /\ LET r == ring[th[self].n]
       IN  th' = [th EXCEPT ![self] =
                    IF queue_is_full(th[self].head_now, r.enq_success_, r.scqsize_)
                    THEN Ret(@, FALSE)
                    ELSE [@ EXCEPT !.pc = "scqp_e_faa", !.head_now = 0]]
    /\ UNCHANGED <<poolVars, extVars, kind, lq, ring, prog, hist>>

\* t = tail_.fetch_add(1)
ScqpEnqTicket(self) ==
    /\ th[self].pc = "scqp_e_faa"
    /\ LET n == th[self].n
       IN  /\ ring[n].tail_ < MaxTicket
           /\ th' = [th EXCEPT ![self] = [@ EXCEPT !.pc = "scqp_e_load", !.tk = ring[n].tail_]]
           /\ ring' = [ring EXCEPT ![n].tail_ = @ + 1]
    /\ UNCHANGED <<poolVars, extVars, kind, lq, prog, hist>>

\* The step after the slot was found usable.
ScqpEnqClaim(r) == IF r.using_fallback_ THEN "scqp_e_parr" ELSE "scqp_e_cas"

\* ent = entryp_load / entry_load of the slot, and the test of the slot.
ScqpEnqLoad(self) ==
    /\ th[self].pc = "scqp_e_load"
    /\ LET r == ring[th[self].n]
           t == th[self].tk
           ent == r.entries[Slot(r, t)]
           cycle_e == unpack_cycle(ent.cycle_flags)
       IN  th' = [th EXCEPT ![self] =
                    IF cycle_less(cycle_e, Cycle(r, t)) /\ ent.index_or_ptr = ScqpEmpty(r)
                    THEN [@ EXCEPT !.ent = ent,
                                   !.pc = IF unpack_is_safe(ent.cycle_flags)
                                          THEN ScqpEnqClaim(r) ELSE "scqp_e_head"]
                    ELSE [@ EXCEPT !.ent = Entry(0, 0), !.tk = 0, !.pc = "scqp_e_deqs"]]
    /\ UNCHANGED <<poolVars, extVars, kind, lq, ring, prog, hist>>

\* The slot is not safe: head_.load() <= t decides.
ScqpEnqHead(self) ==
    /\ th[self].pc = "scqp_e_head"
    /\ LET r == ring[th[self].n]
       IN  th' = [th EXCEPT ![self] =
                    IF r.head_ <= th[self].tk
                    THEN [@ EXCEPT !.pc = ScqpEnqClaim(r)]
                    ELSE [@ EXCEPT !.ent = Entry(0, 0), !.tk = 0, !.pc = "scqp_e_deqs"]]
    /\ UNCHANGED <<poolVars, extVars, kind, lq, ring, prog, hist>>

\* Fallback: atomic_compare_exchange_ptr(&ptr_array_[j], nullptr, ptr).
ScqpEnqSidePut(self) ==
    /\ th[self].pc = "scqp_e_parr"
    /\ LET n == th[self].n
           r == ring[n]
           j == Slot(r, th[self].tk)
       IN  IF r.ptr_array_[j] = nullptr
           THEN /\ ring' = [ring EXCEPT ![n].ptr_array_[j] = th[self].arg]
                /\ th' = [th EXCEPT ![self] = [@ EXCEPT !.pc = "scqp_e_cas"]]
           ELSE /\ th' = [th EXCEPT ![self] =
                            [@ EXCEPT !.ent = Entry(0, 0), !.tk = 0, !.pc = "scqp_e_deqs"]]
                /\ UNCHANGED ring
    /\ UNCHANGED <<poolVars, extVars, kind, lq, prog, hist>>

\* cas2p(&entries_p_[j], expected, desired) / cas2(&entries_i_[j], ...).
ScqpEnqCas(self) ==
    /\ th[self].pc = "scqp_e_cas"
    /\ LET n == th[self].n
           r == ring[n]
           t == th[self].tk
           j == Slot(r, t)
           desired == Entry(pack_cycle_flags(Cycle(r, t), TRUE),
                            IF r.using_fallback_ THEN j ELSE th[self].arg)
       IN  IF r.entries[j] = th[self].ent
           THEN /\ ring' = [ring EXCEPT ![n].entries[j] = desired]
                /\ th' = [th EXCEPT ![self] = [@ EXCEPT !.pc = "scqp_e_thr"]]
           ELSE /\ th' = [th EXCEPT ![self] =
                            [@ EXCEPT !.pc = IF r.using_fallback_
                                             THEN "scqp_e_undo" ELSE "scqp_e_load"]]
                /\ UNCHANGED ring
    /\ UNCHANGED <<poolVars, extVars, kind, lq, prog, hist>>

\* Fallback, after a failed cas2: roll the side slot back and retry the slot.
ScqpEnqSideUndo(self) ==
    /\ th[self].pc = "scqp_e_undo"
    /\ LET n == th[self].n
           r == ring[n]
           j == Slot(r, th[self].tk)
       IN  ring' = [ring EXCEPT ![n].ptr_array_[j] =
                      IF @ = th[self].arg THEN nullptr ELSE @]
    /\ th' = [th EXCEPT ![self] = [@ EXCEPT !.pc = "scqp_e_load"]]
    /\ UNCHANGED <<poolVars, extVars, kind, lq, prog, hist>>

\* The value is published: reset the threshold if it is not at its reset value.
ScqpEnqThreshold(self) ==
    /\ th[self].pc = "scqp_e_thr"
    /\ LET n == th[self].n
       IN  ring' = [ring EXCEPT ![n].threshold_ =
                      IF @ # ScqpThresholdReset(ring[n])
                      THEN ScqpThresholdReset(ring[n]) ELSE @]
    /\ th' = [th EXCEPT ![self] = [@ EXCEPT !.pc = "scqp_e_count"]]
    /\ UNCHANGED <<poolVars, extVars, kind, lq, prog, hist>>

\* enq_success_.fetch_add(1); return true.
ScqpEnqCount(self) ==
    /\ th[self].pc = "scqp_e_count"
    /\ ring' = [ring EXCEPT ![th[self].n].enq_success_ = @ + 1]
    /\ th' = [th EXCEPT ![self] = Ret(@, TRUE)]
    /\ UNCHANGED <<poolVars, extVars, kind, lq, prog, hist>>

(***************************************************************************)
(* SCQP<T>::dequeue, dequeue_ptr and dequeue_index (src/src/scqp.cpp).     *)
(***************************************************************************)
\* threshold_.load() < 0 is the fast empty check.
ScqpDequeue(self) ==
    /\ th[self].pc = "scqp_deq"
    /\ th' = [th EXCEPT ![self] =
                [@ EXCEPT !.pc = IF ring[th[self].n].threshold_ < 0
                                 THEN "scqp_d_chk_h" ELSE "scqp_d_faa"]]
    /\ UNCHANGED <<poolVars, extVars, kind, lq, ring, prog, hist>>

\* head_now = head_.load() of the fast empty check.
ScqpDeqCheckHead(self) ==
    /\ th[self].pc = "scqp_d_chk_h"
    /\ th' = [th EXCEPT ![self] =
                [@ EXCEPT !.pc = "scqp_d_chk_t", !.head_now = ring[th[self].n].head_]]
    /\ UNCHANGED <<poolVars, extVars, kind, lq, ring, prog, hist>>

\* tail_now = tail_.load(): fall through when tail > head, else nullptr.
ScqpDeqCheckTail(self) ==
    /\ th[self].pc = "scqp_d_chk_t"
    /\ th' = [th EXCEPT ![self] =
                IF ring[th[self].n].tail_ > th[self].head_now
                THEN [@ EXCEPT !.pc = "scqp_d_store", !.br = "go"]
                ELSE Ret(@, nullptr)]
    /\ UNCHANGED <<poolVars, extVars, kind, lq, ring, prog, hist>>

\* threshold_.store(threshold_reset); then a (new) ticket, or nullptr after
\* fixState.
ScqpDeqThresholdStore(self) ==
    /\ th[self].pc = "scqp_d_store"
    /\ LET n == th[self].n
       IN  ring' = [ring EXCEPT ![n].threshold_ = ScqpThresholdReset(ring[n])]
    /\ th' = [th EXCEPT ![self] =
                IF th[self].br = "go"
                THEN [@ EXCEPT !.pc = "scqp_d_faa", !.br = "none", !.head_now = 0]
                ELSE Ret(@, nullptr)]
    /\ UNCHANGED <<poolVars, extVars, kind, lq, prog, hist>>

\* h = head_.fetch_add(1); inner_retries = 0
ScqpDeqTicket(self) ==
    /\ th[self].pc = "scqp_d_faa"
    /\ LET n == th[self].n
       IN  /\ ring[n].head_ < MaxTicket
           /\ th' = [th EXCEPT ![self] =
                       [@ EXCEPT !.pc = "scqp_d_load", !.tk = ring[n].head_,
                                 !.inner_retries = 0]]
           /\ ring' = [ring EXCEPT ![n].head_ = @ + 1]
    /\ UNCHANGED <<poolVars, extVars, kind, lq, prog, hist>>

\* What a dequeue with ticket h wants to write over an entry of another cycle.
ScqpDeqDesired(r, ent, cycle_h) ==
    IF ent.index_or_ptr = ScqpEmpty(r)
    THEN Entry(pack_cycle_flags(cycle_h, unpack_is_safe(ent.cycle_flags)), ScqpEmpty(r))
    ELSE Entry(pack_cycle_flags(unpack_cycle(ent.cycle_flags), FALSE), ent.index_or_ptr)

\* A load of the slot without the safety valve: IsSafe clear always re-reads.
ScqpDeqLoadNoValve(self) ==
    /\ th[self].pc = "scqp_d_load"
    /\ LET r == ring[th[self].n]
           h == th[self].tk
           ent == r.entries[Slot(r, h)]
           cycle_e == unpack_cycle(ent.cycle_flags)
       IN  th' = [th EXCEPT ![self] =
                    IF cycle_e = Cycle(r, h)
                    THEN IF ent.index_or_ptr = ScqpEmpty(r)
                         THEN [@ EXCEPT !.pc = "scqp_d_tail"]
                         ELSE IF ~unpack_is_safe(ent.cycle_flags)
                         THEN [@ EXCEPT !.inner_retries = th[self].inner_retries + 1]
                         ELSE [@ EXCEPT !.ent = ent,
                                        !.pc = IF r.using_fallback_
                                               THEN "scqp_d_xside" ELSE "scqp_d_xchg"]
                    ELSE IF cycle_less(cycle_e, Cycle(r, h))
                         THEN [@ EXCEPT !.ent = ent, !.pc = "scqp_d_cas"]
                         ELSE [@ EXCEPT !.pc = "scqp_d_tail"]]
    /\ UNCHANGED <<poolVars, extVars, kind, lq, ring, prog, hist>>

\* ent = load of the slot and the test of the slot.  With the cycle of the
\* ticket: empty ends the inner loop, IsSafe clear re-reads the slot until
\* the safety valve ends the inner loop, else the value is taken.
ScqpDeqLoad(self) ==
    /\ th[self].pc = "scqp_d_load"
    /\ LET r == ring[th[self].n]
           h == th[self].tk
           ent == r.entries[Slot(r, h)]
           cycle_e == unpack_cycle(ent.cycle_flags)
       IN  th' = [th EXCEPT ![self] =
                    IF cycle_e = Cycle(r, h)
                    THEN IF ent.index_or_ptr = ScqpEmpty(r)
                         THEN [@ EXCEPT !.pc = "scqp_d_tail"]
                         ELSE IF ~unpack_is_safe(ent.cycle_flags)
                         THEN IF th[self].inner_retries + 1 > MAX_INNER_RETRIES
                              THEN [@ EXCEPT !.pc = "scqp_d_tail",
                                             !.inner_retries = th[self].inner_retries + 1]
                              ELSE [@ EXCEPT !.inner_retries = th[self].inner_retries + 1]
                         ELSE [@ EXCEPT !.ent = ent,
                                        !.pc = IF r.using_fallback_
                                               THEN "scqp_d_xside" ELSE "scqp_d_xchg"]
                    ELSE IF cycle_less(cycle_e, Cycle(r, h))
                         THEN [@ EXCEPT !.ent = ent, !.pc = "scqp_d_cas"]
                         ELSE [@ EXCEPT !.pc = "scqp_d_tail"]]
    /\ UNCHANGED <<poolVars, extVars, kind, lq, ring, prog, hist>>

\* Pointer mode: atomic_exchange_ptr(&entries_p_[j].ptr, nullptr); the
\* pointer read with the entry is the result.
ScqpDeqTakePtr(self) ==
    /\ th[self].pc = "scqp_d_xchg"
    /\ LET n == th[self].n
           j == Slot(ring[n], th[self].tk)
       IN  ring' = [ring EXCEPT ![n].entries[j].index_or_ptr = nullptr]
    /\ th' = [th EXCEPT ![self] =
                [@ EXCEPT !.pc = "scqp_d_count", !.value = th[self].ent.index_or_ptr]]
    /\ UNCHANGED <<poolVars, extVars, kind, lq, prog, hist>>

\* Fallback: value = atomic_exchange_ptr(&ptr_array_[idx], nullptr)
ScqpDeqTakeSide(self) ==
    /\ th[self].pc = "scqp_d_xside"
    /\ LET n == th[self].n
           idx == th[self].ent.index_or_ptr
       IN  /\ ring' = [ring EXCEPT ![n].ptr_array_[idx] = nullptr]
           /\ th' = [th EXCEPT ![self] =
                       [@ EXCEPT !.pc = "scqp_d_xidx", !.value = ring[n].ptr_array_[idx]]]
    /\ UNCHANGED <<poolVars, extVars, kind, lq, prog, hist>>

\* Fallback: atomic_exchange_u64(&entries_i_[j].index_or_ptr, kEmptyIndex)
ScqpDeqTakeIndex(self) ==
    /\ th[self].pc = "scqp_d_xidx"
    /\ LET n == th[self].n
           j == Slot(ring[n], th[self].tk)
       IN  ring' = [ring EXCEPT ![n].entries[j].index_or_ptr = kEmptyIndex]
    /\ th' = [th EXCEPT ![self] = [@ EXCEPT !.pc = "scqp_d_count"]]
    /\ UNCHANGED <<poolVars, extVars, kind, lq, prog, hist>>

\* deq_success_.fetch_add(1); return value.
ScqpDeqCount(self) ==
    /\ th[self].pc = "scqp_d_count"
    /\ ring' = [ring EXCEPT ![th[self].n].deq_success_ = @ + 1]
    /\ th' = [th EXCEPT ![self] = Ret(@, th[self].value)]
    /\ UNCHANGED <<poolVars, extVars, kind, lq, prog, hist>>

\* cas2 on an entry of an older cycle.
ScqpDeqCas(self) ==
    /\ th[self].pc = "scqp_d_cas"
    /\ LET n == th[self].n
           r == ring[n]
           h == th[self].tk
           j == Slot(r, h)
       IN  IF r.entries[j] = th[self].ent
           THEN /\ ring' = [ring EXCEPT ![n].entries[j] =
                               ScqpDeqDesired(r, th[self].ent, Cycle(r, h))]
                /\ th' = [th EXCEPT ![self] =
                            [@ EXCEPT !.pc = "scqp_d_tail", !.ent = Entry(0, 0)]]
           ELSE /\ th' = [th EXCEPT ![self] =
                            [@ EXCEPT !.pc = "scqp_d_load", !.ent = Entry(0, 0)]]
                /\ UNCHANGED ring
    /\ UNCHANGED <<poolVars, extVars, kind, lq, prog, hist>>

\* t = tail_.load(); t <= h + 1 means the ring is empty.
ScqpDeqTail(self) ==
    /\ th[self].pc = "scqp_d_tail"
    /\ th' = [th EXCEPT ![self] =
                [@ EXCEPT !.pc = "scqp_d_sub", !.inner_retries = 0,
                          !.br = IF ring[th[self].n].tail_ <= th[self].tk + 1
                                 THEN "empty" ELSE "retry"]]
    /\ UNCHANGED <<poolVars, extVars, kind, lq, ring, prog, hist>>

\* prev = threshold_.fetch_sub(1); next = prev - 1.
ScqpDeqPenalize(self) ==
    /\ th[self].pc = "scqp_d_sub"
    /\ LET n == th[self].n
           next == ring[n].threshold_ - 1
       IN  /\ ring' = [ring EXCEPT ![n].threshold_ = next]
           /\ th' = [th EXCEPT ![self] =
                       IF next <= 0 THEN [@ EXCEPT !.pc = "scqp_d_now_h"]
                       ELSE IF th[self].br = "empty" THEN Ret(@, nullptr)
                       ELSE [@ EXCEPT !.pc = "scqp_d_faa", !.br = "none"]]
    /\ UNCHANGED <<poolVars, extVars, kind, lq, prog, hist>>

\* head_now = head_.load() once the threshold is used up.
ScqpDeqNowHead(self) ==
    /\ th[self].pc = "scqp_d_now_h"
    /\ th' = [th EXCEPT ![self] =
                [@ EXCEPT !.pc = "scqp_d_now_t", !.head_now = ring[th[self].n].head_]]
    /\ UNCHANGED <<poolVars, extVars, kind, lq, ring, prog, hist>>

\* tail_now = tail_.load().  After an empty ticket: fixState or nothing,
\* then nullptr.  After a ticket that found no value in a non-empty ring:
\* reset the threshold and retry when tail > head, else fixState or nothing,
\* then nullptr.
ScqpDeqNowTail(self) ==
    /\ th[self].pc = "scqp_d_now_t"
    /\ LET r == ring[th[self].n]
           head_now == th[self].head_now
           tail_now == r.tail_
       IN  th' = [th EXCEPT ![self] =
                    IF th[self].br = "retry" /\ tail_now > head_now
                    THEN [@ EXCEPT !.pc = "scqp_d_store", !.br = "go"]
                    ELSE IF head_now > tail_now /\ (head_now - tail_now) > r.scqsize_
                    THEN [@ EXCEPT !.pc = "fix_h", !.br = "ret"]
                    ELSE Ret(@, nullptr)]
    /\ UNCHANGED <<poolVars, extVars, kind, lq, ring, prog, hist>>

(***************************************************************************)
(* ObjectPool<Node> (src/include/lscq/object_pool.hpp).  A shard's mutex   *)
(* makes its critical section one step.                                    *)
(***************************************************************************)
Shards == 0..(ShardCount - 1)

\* std::hash of the thread id modulo the number of shards.
CurrentShardIndex(t) == t % ShardCount

\* Put: shard.objects.emplace_back(obj) on the caller's shard.
PoolPut(pool, t, obj) ==
    [pool EXCEPT ![CurrentShardIndex(t)] = Append(@, obj)]

PopBack(pool, s) ==
    [pool EXCEPT ![s] = SubSeq(@, 1, Len(@) - 1)]

\* Get: the outcomes of one call, as records of the node returned, the pool
\* and the number of nodes made.  The back of the caller's shard if that is
\* not empty; else the back of another shard whose try_lock succeeds (it may
\* fail when the mutex is held and is allowed to fail when it is not); else
\* a node from the factory.
PoolGet(pool, made, t) ==
    LET s == CurrentShardIndex(t)
    IN  IF pool[s] # << >>
        THEN {[node |-> pool[s][Len(pool[s])], pool |-> PopBack(pool, s), made |-> made]}
        ELSE {[node |-> pool[o][Len(pool[o])], pool |-> PopBack(pool, o), made |-> made] :
                  o \in {o \in Shards \ {s} : pool[o] # << >>}}
             \cup (IF made < MaxNodes
                   THEN {[node |-> made + 1, pool |-> pool, made |-> made + 1]}
                   ELSE {})

(***************************************************************************)
(* LSCQ<T> (src/src/lscq.cpp).  next[n] and finalized[n] are the fields of *)
(* Node n, ring[n] is its scqp.                                            *)
(***************************************************************************)
\* Retries of LSCQ::enqueue and of the dequeue on a node that has a
\* successor.
MAX_RETRIES == 16
MAX_SCQP_RETRIES == 3

\* LSCQ<T>::LSCQ(scqsize): the initial node comes from the factory.
LscqNew ==
    [ head_ |-> 1,
      tail_ |-> 1,
      closing_ |-> FALSE,
      closing_buf |-> FALSE,
      active_ops_ |-> 0,
      pool_ |-> [s \in Shards |-> << >>],
      made |-> 1,
      next |-> [n \in Nodes |-> nullptr],
      finalized |-> [n \in Nodes |-> FALSE],
      cleared |-> FALSE ]

\* The LSCQ part of the state while a single ring is under test.
LscqNone ==
    [LscqNew EXCEPT !.head_ = nullptr, !.tail_ = nullptr, !.made = 0]

\* Leave the call through ~ActiveOpsGuard with the result v.
Leave(rec, v) == [rec EXCEPT !.pc = "lscq_leave", !.ret = v]

\* ActiveOpsGuard(counter): counter_.fetch_add(1)
ActiveOpsEnter(self) ==
    /\ th[self].pc = "lscq_guard"
    /\ lq' = [lq EXCEPT !.active_ops_ = @ + 1]
    /\ th' = [th EXCEPT ![self] = [@ EXCEPT !.pc = "lscq_recheck", !.guarded = TRUE]]
    /\ UNCHANGED <<poolVars, extVars, kind, ring, prog, hist>>

\* ~ActiveOpsGuard(): counter_.fetch_sub(1), and the call returns.
ActiveOpsLeave(self) ==
    /\ th[self].pc = "lscq_leave"
    /\ lq' = [lq EXCEPT !.active_ops_ = @ - 1]
    /\ th' = [th EXCEPT ![self] =
                [@ EXCEPT !.pc = "done", !.node = 0, !.next = 0, !.is_finalized = FALSE,
                          !.retry = 0, !.wait_retries = 0, !.new_node = 0, !.n = 0,
                          !.guarded = FALSE]]
    /\ UNCHANGED <<poolVars, extVars, kind, ring, prog, hist>>

\* enqueue: ptr == nullptr, then the first closing_.load().
LscqEnqueue(self) ==
    /\ th[self].pc = "lscq_enq"
    /\ th' = [th EXCEPT ![self] =
                IF th[self].arg = nullptr \/ lq.closing_
                THEN [@ EXCEPT !.pc = "done", !.ret = FALSE]
                ELSE [@ EXCEPT !.pc = "lscq_guard"]]
    /\ UNCHANGED <<poolVars, extVars, kind, ring, lq, prog, hist>>

\* dequeue: the first closing_.load().
LscqDequeue(self) ==
    /\ th[self].pc = "lscq_deq"
    /\ th' = [th EXCEPT ![self] =
                IF lq.closing_
                THEN [@ EXCEPT !.pc = "done", !.ret = nullptr]
                ELSE [@ EXCEPT !.pc = "lscq_guard"]]
    /\ UNCHANGED <<poolVars, extVars, kind, ring, lq, prog, hist>>

\* The re-check of closing_ after active_ops_ was incremented.
LscqRecheck(self) ==
    /\ th[self].pc = "lscq_recheck"
    /\ th' = [th EXCEPT ![self] =
                IF lq.closing_
                THEN Leave(@, IF th[self].op = "enq" THEN FALSE ELSE nullptr)
                ELSE [@ EXCEPT !.pc = IF th[self].op = "enq"
                                      THEN "lscq_e_tail" ELSE "lscq_d_head",
                               !.retry = 0, !.wait_retries = 0]]
    /\ UNCHANGED <<poolVars, extVars, kind, ring, lq, prog, hist>>

\* tail = tail_.load(); tail->scqp.enqueue(ptr)
LscqEnqTail(self) ==
    /\ th[self].pc = "lscq_e_tail"
    /\ lq.tail_ # nullptr
    /\ th' = [th EXCEPT ![self] =
                [@ EXCEPT !.pc = "scqp_enq", !.cont = "lscq_e_fin",
                          !.node = lq.tail_, !.n = lq.tail_]]
    /\ UNCHANGED <<poolVars, extVars, kind, ring, lq, prog, hist>>

\* A loop of enqueue that gives up after its first round.
EnqRoundOnce(rec) == Leave(rec, FALSE)

\* The end of one round of enqueue's loop: ++retry < MAX_RETRIES, else false.
EnqRound(rec) ==
    IF rec.retry + 1 < MAX_RETRIES
    THEN [rec EXCEPT !.pc = "lscq_e_tail", !.retry = rec.retry + 1, !.next = 0,
                     !.new_node = 0, !.node = 0, !.n = 0]
    ELSE Leave(rec, FALSE)

\* The finalized CAS of a producer that goes on to install a node whether
\* it has won or lost.
LscqEnqFinalizeAll(self) ==
    /\ th[self].pc = "lscq_e_fin"
    /\ LET tail == th[self].node
       IN  IF th[self].ret = TRUE
           THEN /\ th' = [th EXCEPT ![self] = Leave(@, TRUE)]
                /\ UNCHANGED lq
           ELSE /\ lq' = [lq EXCEPT !.finalized[tail] = TRUE]
                /\ th' = [th EXCEPT ![self] = [@ EXCEPT !.pc = "lscq_e_get"]]
    /\ UNCHANGED <<poolVars, extVars, kind, ring, prog, hist>>

\* The ring took the pointer: return true.  It is full:
\* tail->finalized.compare_exchange_strong(false, true).
LscqEnqFinalize(self) ==
    /\ th[self].pc = "lscq_e_fin"
    /\ LET tail == th[self].node
       IN  IF th[self].ret = TRUE
           THEN /\ th' = [th EXCEPT ![self] = Leave(@, TRUE)]
                /\ UNCHANGED lq
           ELSE IF lq.finalized[tail] = FALSE
           THEN /\ lq' = [lq EXCEPT !.finalized[tail] = TRUE]
                /\ th' = [th EXCEPT ![self] = [@ EXCEPT !.pc = "lscq_e_get"]]
           ELSE /\ th' = [th EXCEPT ![self] = [@ EXCEPT !.pc = "lscq_e_next"]]
                /\ UNCHANGED lq
    /\ UNCHANGED <<poolVars, extVars, kind, ring, prog, hist>>

\* new_node = pool_.Get()
LscqEnqGet(self) ==
    /\ th[self].pc = "lscq_e_get"
    /\ \E got \in PoolGet(lq.pool_, lq.made, self) :
          /\ lq' = [lq EXCEPT !.pool_ = got.pool, !.made = got.made]
          /\ th' = [th EXCEPT ![self] =
                      [@ EXCEPT !.pc = "lscq_e_prep_n", !.new_node = got.node]]
    /\ UNCHANGED <<poolVars, extVars, kind, ring, prog, hist>>

\* prepare_node_for_use: node->next.store(nullptr)
LscqEnqStoreNext(self) ==
    /\ th[self].pc = "lscq_e_prep_n"
    /\ lq' = [lq EXCEPT !.next[th[self].new_node] = nullptr]
    /\ th' = [th EXCEPT ![self] = [@ EXCEPT !.pc = "lscq_e_prep_f"]]
    /\ UNCHANGED <<poolVars, extVars, kind, ring, prog, hist>>

\* prepare_node_for_use: node->finalized.store(false)
LscqEnqStoreFinalized(self) ==
    /\ th[self].pc = "lscq_e_prep_f"
    /\ lq' = [lq EXCEPT !.finalized[th[self].new_node] = FALSE]
    /\ th' = [th EXCEPT ![self] = [@ EXCEPT !.pc = "lscq_e_reset"]]
    /\ UNCHANGED <<poolVars, extVars, kind, ring, prog, hist>>

\* SCQP<T>::is_empty: tail <= head of the success counters.
is_empty(r) == r.enq_success_ <= r.deq_success_

\* The scan of reset_for_reuse: no slot holds a payload.
SlotsEmpty(r) ==
    \A i \in DOMAIN r.entries :
        IF r.using_fallback_
        THEN r.entries[i].index_or_ptr = kEmptyIndex /\ r.ptr_array_[i] = nullptr
        ELSE r.entries[i].index_or_ptr = nullptr

\* A reset_for_reuse that leaves the threshold as it is.
reset_for_reuse_keeps_threshold(r) ==
    IF ~is_empty(r) \/ ~SlotsEmpty(r)
    THEN [ok |-> FALSE, ring |-> r]
    ELSE [ok |-> TRUE,
          ring |-> [r EXCEPT
                      !.entries = [i \in DOMAIN r.entries |->
                                      Entry(pack_cycle_flags(0, TRUE), ScqpEmpty(r))],
                      !.ptr_array_ = [i \in DOMAIN r.ptr_array_ |-> nullptr],
                      !.head_ = r.scqsize_,
                      !.tail_ = r.scqsize_,
                      !.deq_success_ = 0,
                      !.enq_success_ = 0]]

\* SCQP<T>::reset_for_reuse, called with exclusive access: false and no
\* write if the ring is not empty or a slot holds a payload; else every
\* slot, head_, tail_, threshold_ and the success counters are stored anew.
\* ok is the result, ring the ring after the call.
reset_for_reuse(r) ==
    IF ~is_empty(r) \/ ~SlotsEmpty(r)
    THEN [ok |-> FALSE, ring |-> r]
    ELSE [ok |-> TRUE,
          ring |-> [r EXCEPT
                      !.entries = [i \in DOMAIN r.entries |->
                                      Entry(pack_cycle_flags(0, TRUE), ScqpEmpty(r))],
                      !.ptr_array_ = [i \in DOMAIN r.ptr_array_ |-> nullptr],
                      !.head_ = r.scqsize_,
                      !.tail_ = r.scqsize_,
                      !.threshold_ = (r.scqsize_ * 2) - 1,
                      !.deq_success_ = 0,
                      !.enq_success_ = 0]]

\* prepare_node_for_use: scqp.reset_for_reuse(), and where that refuses the
\* ring is destroyed and constructed again with SCQP<T>(scqsize).
prepare_node_for_use(r, scqsize) ==
    IF reset_for_reuse(r).ok THEN reset_for_reuse(r).ring ELSE ScqpNew(scqsize, FALSE)

\* A call of reset_for_reuse on the ring under test.  Where the ring is not
\* empty the call meets assert(false) before its return false: it returns
\* false in a build with NDEBUG and ends the process in a build without.
ScqpReset(self) ==
    /\ th[self].pc = "scqp_reset"
    /\ LET n == th[self].n
           res == reset_for_reuse(ring[n])
       IN  \/ /\ ring' = [ring EXCEPT ![n] = res.ring]
              /\ th' = [th EXCEPT ![self] = Ret(@, res.ok)]
           \/ /\ ~res.ok
              /\ th' = [th EXCEPT ![self].pc = "abort"]
              /\ UNCHANGED ring
    /\ UNCHANGED <<poolVars, extVars, kind, lq, prog, hist>>

LscqEnqReset(self) ==
    /\ th[self].pc = "lscq_e_reset"
    /\ ring' = [ring EXCEPT ![th[self].new_node] = prepare_node_for_use(@, @.scqsize_)]
    /\ th' = [th EXCEPT ![self] = [@ EXCEPT !.pc = "lscq_e_link"]]
    /\ UNCHANGED <<poolVars, extVars, kind, lq, prog, hist>>

\* tail->next.compare_exchange_strong(nullptr, new_node), and
\* pool_.Put(new_node) where another thread linked a node already.
LscqEnqLink(self) ==
    /\ th[self].pc = "lscq_e_link"
    /\ LET tail == th[self].node
       IN  lq' = IF lq.next[tail] = nullptr
                 THEN [lq EXCEPT !.next[tail] = th[self].new_node]
                 ELSE [lq EXCEPT !.pool_ = PoolPut(@, self, th[self].new_node)]
    /\ th' = [th EXCEPT ![self] = [@ EXCEPT !.pc = "lscq_e_next"]]
    /\ UNCHANGED <<poolVars, extVars, kind, ring, prog, hist>>

\* next = tail->next.load(); without a next node the round ends.
LscqEnqNext(self) ==
    /\ th[self].pc = "lscq_e_next"
    /\ LET next == lq.next[th[self].node]
       IN  th' = [th EXCEPT ![self] =
                    IF next # nullptr
                    THEN [@ EXCEPT !.pc = "lscq_e_adv", !.next = next]
                    ELSE EnqRound(@)]
    /\ UNCHANGED <<poolVars, extVars, kind, ring, lq, prog, hist>>

\* tail_.compare_exchange_strong(tail, next)
LscqEnqAdvance(self) ==
    /\ th[self].pc = "lscq_e_adv"
    /\ lq' = IF lq.tail_ = th[self].node
             THEN [lq EXCEPT !.tail_ = th[self].next]
             ELSE lq
    /\ th' = [th EXCEPT ![self] = EnqRound(@)]
    /\ UNCHANGED <<poolVars, extVars, kind, ring, prog, hist>>

\* head = head_.load(); head->scqp.dequeue()
LscqDeqHead(self) ==
    /\ th[self].pc = "lscq_d_head"
    /\ lq.head_ # nullptr
    /\ th' = [th EXCEPT ![self] =
                [@ EXCEPT !.pc = "scqp_deq", !.cont = "lscq_d_next",
                          !.node = lq.head_, !.n = lq.head_, !.next = 0,
                          !.is_finalized = FALSE, !.retry = 0]]
    /\ UNCHANGED <<poolVars, extVars, kind, ring, lq, prog, hist>>

\* The ring gave a pointer: return it.  Else next = head->next.load().
LscqDeqNext(self) ==
    /\ th[self].pc = "lscq_d_next"
    /\ th' = [th EXCEPT ![self] =
                IF th[self].ret # nullptr
                THEN Leave(@, th[self].ret)
                ELSE [@ EXCEPT !.pc = "lscq_d_fin", !.next = lq.next[th[self].node]]]
    /\ UNCHANGED <<poolVars, extVars, kind, ring, lq, prog, hist>>

\* is_finalized = head->finalized.load(); nullptr if the node is neither
\* finalized nor linked, else the ring is tried again.
LscqDeqFinalized(self) ==
    /\ th[self].pc = "lscq_d_fin"
    /\ LET is_finalized == lq.finalized[th[self].node]
       IN  th' = [th EXCEPT ![self] =
                    IF ~is_finalized /\ th[self].next = nullptr
                    THEN Leave(@, nullptr)
                    ELSE [@ EXCEPT !.pc = "scqp_deq", !.cont = "lscq_d_retry",
                                   !.is_finalized = is_finalized, !.retry = 0]]
    /\ UNCHANGED <<poolVars, extVars, kind, ring, lq, prog, hist>>

\* One of the MAX_SCQP_RETRIES further tries returned: a pointer is the
\* result; after the last try a finalized node is checked for emptiness and
\* any other node is read again from head_.
LscqDeqRetry(self) ==
    /\ th[self].pc = "lscq_d_retry"
    /\ th' = [th EXCEPT ![self] =
                IF th[self].ret # nullptr
                THEN Leave(@, th[self].ret)
                ELSE IF th[self].retry + 1 < MAX_SCQP_RETRIES
                THEN [@ EXCEPT !.pc = "scqp_deq", !.retry = th[self].retry + 1]
                ELSE IF th[self].is_finalized
                THEN [@ EXCEPT !.pc = "lscq_d_empty_h", !.retry = 0]
                ELSE [@ EXCEPT !.pc = "lscq_d_head", !.retry = 0]]
    /\ UNCHANGED <<poolVars, extVars, kind, ring, lq, prog, hist>>

\* SCQP<T>::is_empty: head = deq_success_.load()
ScqpIsEmptyHead(self) ==
    /\ th[self].pc = "lscq_d_empty_h"
    /\ th' = [th EXCEPT ![self] =
                [@ EXCEPT !.pc = "lscq_d_empty_t",
                          !.head_now = ring[th[self].node].deq_success_]]
    /\ UNCHANGED <<poolVars, extVars, kind, ring, lq, prog, hist>>

\* SCQP<T>::is_empty: tail = enq_success_.load(); return tail <= head.  A
\* ring that is not empty is tried again; an empty one without a next node
\* is waited for at most MAX_WAIT_RETRIES times; else head_ is advanced.
ScqpIsEmptyTail(self) ==
    /\ th[self].pc = "lscq_d_empty_t"
    /\ LET empty_now == ring[th[self].node].enq_success_ <= th[self].head_now
       IN  th' = [th EXCEPT ![self] =
                    IF ~empty_now
                    THEN [@ EXCEPT !.pc = "lscq_d_head", !.head_now = 0]
                    ELSE IF th[self].next = nullptr
                    THEN IF th[self].wait_retries + 1 > MAX_WAIT_RETRIES
                         THEN Leave([@ EXCEPT !.head_now = 0], nullptr)
                         ELSE [@ EXCEPT !.pc = "lscq_d_head", !.head_now = 0,
                                        !.wait_retries = th[self].wait_retries + 1]
                    ELSE [@ EXCEPT !.pc = "lscq_d_adv", !.head_now = 0,
                                   !.wait_retries = 0]]
    /\ UNCHANGED <<poolVars, extVars, kind, ring, lq, prog, hist>>

\* head_.compare_exchange_strong(head, next)
LscqDeqAdvance(self) ==
    /\ th[self].pc = "lscq_d_adv"
    /\ IF lq.head_ = th[self].node
       THEN /\ lq' = [lq EXCEPT !.head_ = th[self].next]
            /\ th' = [th EXCEPT ![self] = [@ EXCEPT !.pc = "lscq_d_put"]]
       ELSE /\ th' = [th EXCEPT ![self] = [@ EXCEPT !.pc = "lscq_d_head"]]
            /\ UNCHANGED lq
    /\ UNCHANGED <<poolVars, extVars, kind, ring, prog, hist>>

\* pool_.Put(head): the drained node goes back to the pool.
LscqDeqPut(self) ==
    /\ th[self].pc = "lscq_d_put"
    /\ lq' = [lq EXCEPT !.pool_ = PoolPut(@, self, th[self].node)]
    /\ th' = [th EXCEPT ![self] = [@ EXCEPT !.pc = "lscq_d_head"]]
    /\ UNCHANGED <<poolVars, extVars, kind, ring, prog, hist>>

(***************************************************************************)
(* LSCQ<T>::~LSCQ.  closing_.store(true, release) is followed by            *)
(* active_ops_.load(acquire): a load may be satisfied before an earlier    *)
(* store to another location is visible to the other threads, so the store *)
(* first sits in the destructor's store buffer (closing_buf) and becomes   *)
(* visible in a step of its own, at the latest before the destructor's     *)
(* first locked operation (the pool's mutex).                              *)
(***************************************************************************)
\* closing_.store(true, std::memory_order_release)
LscqDtor(self) ==
    /\ th[self].pc = "lscq_dtor"
    /\ lq' = [lq EXCEPT !.closing_buf = TRUE]
    /\ th' = [th EXCEPT ![self] = [@ EXCEPT !.pc = "lscq_x_wait"]]
    /\ UNCHANGED <<poolVars, extVars, kind, ring, prog, hist>>

\* The store to closing_ becomes visible.
LscqClosingVisible ==
    /\ lq.closing_buf
    /\ lq' = [lq EXCEPT !.closing_buf = FALSE, !.closing_ = TRUE]
    /\ UNCHANGED <<poolVars, extVars, kind, ring, th, prog, hist>>

\* while (active_ops_.load() > 0) yield(); current = head_.load()
LscqDtorWait(self) ==
    /\ th[self].pc = "lscq_x_wait"
    /\ lq.active_ops_ <= 0
    /\ th' = [th EXCEPT ![self] = [@ EXCEPT !.pc = "lscq_x_walk", !.node = lq.head_]]
    /\ UNCHANGED <<poolVars, extVars, kind, ring, lq, prog, hist>>

\* The walk of the list: next = current->next.load(); pool_.Put(current).
\* After the last node head_ and tail_ are stored nullptr and the pool is
\* cleared, which deletes every node in it.  retry counts the nodes the
\* walk has returned (observation only).
LscqDtorWalk(self) ==
    /\ th[self].pc = "lscq_x_walk"
    /\ ~lq.closing_buf
    /\ LET current == th[self].node
       IN  IF current # nullptr
           THEN /\ lq' = [lq EXCEPT !.pool_ = PoolPut(@, self, current)]
                /\ th' = [th EXCEPT ![self] =
                            [@ EXCEPT !.node = lq.next[current],
                                      !.retry = th[self].retry + 1]]
           ELSE /\ lq' = [lq EXCEPT !.head_ = nullptr, !.tail_ = nullptr,
                                    !.pool_ = [s \in Shards |-> << >>],
                                    !.cleared = TRUE]
                /\ th' = [th EXCEPT ![self] =
                            [@ EXCEPT !.pc = "done", !.node = 0, !.retry = 0]]
    /\ UNCHANGED <<poolVars, extVars, kind, ring, prog, hist>>

(***************************************************************************)
(* Scenarios and specifications.  A scenario is a test: the class under    *)
(* test, the constructor's arguments and the program of every thread, a    *)
(* sequence of calls with joins ("sync") between its phases.               *)
(***************************************************************************)
Rep(c, k) == [i \in 1..k |-> c]

\* The programs of three threads; further threads make no call.
Progs(p1, p2, p3) ==
    [t \in Threads |-> IF t = 1 THEN p1 ELSE IF t = 2 THEN p2
                       ELSE IF t = 3 THEN p3 ELSE << >>]

S == <<"sync">>

\* One thread makes MaxSeqOps calls, each an enqueue or a dequeue, and
\* before them possibly one call with an argument the queue rejects; calls
\* with such an argument on a queue that holds values, alone and beside a
\* dequeue.
SeqProgs ==
    { Progs(Rep("any", MaxSeqOps), << >>, << >>),
      Progs(<<"bad">> \o Rep("any", 2), << >>, << >>),
      Progs(<<"enq", "enq", "bad">> \o S \o <<"bad">>,
            S \o <<"deq">>,
            << >>) }

\* An enqueued value while one dequeue is slow and another thread's
\* dequeues run around the ring; then an enqueue and two dequeues.
LapProgs(size) ==
    { Progs(<<"enq">> \o S \o S \o <<"enq", "deq", "deq">>,
            S \o <<"deq">> \o S,
            S \o Rep("deq", size) \o S) }

\* The lap of LapProgs, then enqueues that go round the ring once more.
RelapProgs(size) ==
    { Progs(<<"enq">> \o S \o S \o Rep("enq", size),
            S \o <<"deq">> \o S,
            S \o Rep("deq", size) \o S) }

\* Two enqueues of one thread, then a slow dequeue beside the dequeues of
\* another thread that run around the ring.
OrderProgs(size) ==
    { Progs(<<"enq", "enq">> \o S,
            S \o <<"deq">>,
            S \o Rep("deq", size)) }

\* An enqueue on a full ring beside a dequeue, then the ring is drained.
FullProgs(size) ==
    { Progs(Rep("enq", size) \o S \o <<"deq">> \o S \o Rep("deq", size + 1),
            S \o <<"enq">> \o S,
            S \o S) }

\* An enqueue beside a dequeue on an empty ring; then a dequeue, an
\* enqueue and a dequeue of one thread.
RaceProgs ==
    { Progs(<<"enq">> \o S \o <<"deq", "enq", "deq">>,
            <<"deq">> \o S,
            S) }

\* Dequeues on an empty ring until one more uses up the threshold, then
\* dequeues beside an enqueue, then an enqueue and a dequeue.
DrainProgs(threshold) ==
    { Progs(Rep("deq", threshold - 1) \o S \o Rep("deq", 3) \o S \o <<"enq", "deq">>,
            S \o <<"enq">> \o S,
            << >>) }

RingProgs(r) ==
    SeqProgs \cup LapProgs(r.scqsize_) \cup OrderProgs(r.scqsize_)
        \cup FullProgs(r.scqsize_) \cup RaceProgs \cup DrainProgs(r.threshold_)
        \cup RelapProgs(r.scqsize_)

\* The tests of an NCQ.
NcqProgs(capacity) == SeqProgs \cup FullProgs(capacity) \cup RaceProgs

\* One thread fills more than two nodes, drains more than one, fills again
\* (into the drained node, taken from the pool) and drains the queue.
PhaseProgs(size) ==
    { Progs(Rep("enq", (2 * size) + 2) \o Rep("deq", size + 1)
                \o Rep("enq", size + 1) \o Rep("deq", (2 * size) + 3),
            << >>, << >>) }

\* The enqueue that finds the first node full beside the dequeues that
\* drain it.
LinkProgs(size) ==
    { Progs(Rep("enq", size) \o S \o <<"enq">> \o S \o <<"deq">>,
            S \o Rep("deq", size + 1) \o S,
            << >>) }

\* The destructor beside an enqueue and a dequeue.
DtorProgs ==
    { Progs(<<"enq">> \o S \o <<"dtor">>,
            S \o <<"enq">>,
            S \o <<"deq">>) }

\* Two enqueues that find the tail node full, one of them followed by a
\* dequeue of its thread; then the queue is drained.
FinalizeProgs(size) ==
    { Progs(Rep("enq", size) \o S \o <<"enq", "deq">> \o S \o Rep("deq", size + 2),
            S \o <<"enq">> \o S,
            << >>) }

\* Two full nodes, the first drained; then a dequeue beside the calls of
\* another thread that move head_ to the second node, fill it, link the
\* first node again behind it, drain the second and move head_ on.
RecycleProgs(size) ==
    { Progs(Rep("enq", 2 * size) \o Rep("deq", size) \o S
                \o <<"deq", "enq", "enq">> \o Rep("deq", size + 1),
            S \o <<"deq">>,
            << >>) }

LscqProgs(size) ==
    SeqProgs \cup PhaseProgs(size) \cup LapProgs(size) \cup OrderProgs(size)
        \cup LinkProgs(size) \cup DtorProgs \cup FinalizeProgs(size)

NewRing(k, scqsize, force_fallback) ==
    IF k = "ncq" THEN NcqNew(scqsize)
    ELSE IF k = "scq" THEN ScqNew(scqsize) ELSE ScqpNew(scqsize, force_fallback)

\* The queue under test after its constructor, and the test's threads.  An
\* SCQP under test is built in pointer mode or with force_fallback; the
\* nodes of an LSCQ are built in pointer mode.
(***************************************************************************)
(* The object pools: ObjectPool (object_pool.hpp), and the pools built on  *)
(* detail::ObjectPoolCore: ObjectPoolTLS, ObjectPoolMap, ObjectPoolTLSv2.  *)
(* The objects are numbered in the order the factory makes them.  A        *)
(* thread's LocalCache is cache[t].  A mutex is 0 or the thread owning it. *)
(***************************************************************************)
Objects == 1..MaxObjects

PoolClasses == {"ObjectPool", "ObjectPoolTLS", "ObjectPoolMap", "ObjectPoolTLSv2"}

\* The owner field of a LocalCache: nullptr, the pool under test, or
\* another pool of the same element type (tls_fast_cache_ is one
\* thread_local per element type).
this == 1
other_pool == 2

\* ObjectPoolTLSv2: the bounds of the effective batch size; the batch array
\* has kMaxBatchSize slots.
kMinBatchSize == IF BatchSize \div 2 = 0 THEN 1 ELSE BatchSize \div 2
kMaxBatchSize == BatchSize * 2

BatchSlots == 0..(kMaxBatchSize - 1)

Min(a, b) == IF a < b THEN a ELSE b

\* The elements of a set of objects as a sequence, in increasing order.
SeqOf(objs) ==
    [k \in 1..Cardinality(objs) |->
        CHOOSE o \in objs : Cardinality({x \in objs : x < o}) = k - 1]

LocalCacheNew(owner) ==
    [ owner |-> owner, private_obj |-> nullptr, fast_slot |-> nullptr,
      batch |-> [i \in BatchSlots |-> nullptr], batch_count |-> 0 ]

ObjectPoolNew(cls, owners, size) ==
    [ cls |-> cls,
      alive |-> TRUE,
      made |-> 0,
      destroyed |-> [o \in Objects |-> 0],
      shards_ |-> [s \in Shards |-> << >>],
      mutex |-> [s \in Shards |-> 0],
      cache |-> [t \in Threads |-> LocalCacheNew(owners[t])],
      registry_ |-> {},
      registry_mutex_ |-> 0,
      caches_ |-> {},
      cache_mutex_ |-> [unique |-> 0, shared |-> {}],
      closing_ |-> FALSE,
      closing_buf |-> << >>,
      active_ops_ |-> 0,
      effective_batch_size |-> size,
      dead_use |-> {} ]

\* A thread between two calls on the pool; held is the set of objects the
\* caller owns.
PoolThread(held, exited) ==
    [ pc |-> "idle", cont |-> "done", op |-> "none", obj |-> nullptr,
      ret |-> nullptr, shard_index |-> 0, n |-> 0, active_ |-> FALSE,
      items |-> << >>, held |-> held, exited |-> exited,
      quiet |-> FALSE, closing |-> FALSE, made |-> 0, locked |-> {},
      stored |-> << >>, todo |-> {}, timed_out |-> FALSE, dead |-> FALSE,
      calls |-> << >> ]

PoolWaiting(t) ==
    pt[t].pc = "idle" /\ (IF Len(prog[t]) = 0 THEN TRUE ELSE Head(prog[t]) = "sync")

\* The objects a shard, a cache slot or a batch slot of the pool refers to.
InShards(p) == UNION {Range(p.shards_[s]) : s \in Shards}
InCaches(p) ==
    UNION {{p.cache[t].private_obj, p.cache[t].fast_slot}
              \cup {p.cache[t].batch[i] : i \in BatchSlots} : t \in Threads}
        \ {nullptr}

\* delete of the objects of a set: the destructor of each runs once more.
Delete(p, objs) ==
    [p EXCEPT !.destroyed = [o \in Objects |-> IF o \in objs THEN @[o] + 1 ELSE @[o]]]

\* Return from a pool call or from a step of ObjectPoolCore to its caller.
PoolRet(rec, v) == [rec EXCEPT !.pc = rec.cont, !.cont = "done", !.ret = v]

(***************************************************************************)
(* detail::ObjectPoolCore (ObjectPool has the same members of its own).    *)
(* A lock_guard is two steps, the lock and the locked block with the       *)
(* unlock, so that a try_to_lock of another thread can find the mutex      *)
(* taken.                                                                  *)
(***************************************************************************)
\* GetShared: TryPopFromShard(CurrentShardIndex()), the lock_guard.
GetShared(self) ==
    /\ pt[self].pc = "GetShared"
    /\ opool.alive
    /\ LET s == CurrentShardIndex(self)
       IN  /\ opool.mutex[s] = 0
           /\ opool' = [opool EXCEPT !.mutex[s] = self]
           /\ pt' = [pt EXCEPT ![self].pc = "TryPopFromShard",
                               ![self].shard_index = s]
    /\ UNCHANGED <<queueVars, extVars>>

\* TryPopFromShard under the lock: nullptr from an empty shard, else the
\* object at the back.  On nullptr GetShared goes on with the other shards.
TryPopFromShard(self) ==
    /\ pt[self].pc = "TryPopFromShard"
    /\ LET s == pt[self].shard_index
           objs == opool.shards_[s]
       IN  IF objs = << >>
           THEN /\ opool' = [opool EXCEPT !.mutex[s] = 0]
                /\ pt' = [pt EXCEPT ![self].pc = "TryStealFromShard",
                                    ![self].n = 1]
           ELSE /\ opool' = [opool EXCEPT !.mutex[s] = 0,
                                          !.shards_[s] = SubSeq(objs, 1, Len(objs) - 1)]
                /\ pt' = [pt EXCEPT ![self] = PoolRet(@, objs[Len(objs)])]
    /\ UNCHANGED <<queueVars, extVars>>

\* The loop of GetShared over the other shards, and the try_to_lock of
\* TryStealFromShard: a mutex that is taken gives nullptr at once.  After
\* the last shard the factory makes a new object.
TryStealFromShard(self) ==
    /\ pt[self].pc = "TryStealFromShard"
    /\ opool.alive
    /\ LET n == pt[self].n
           o == (pt[self].shard_index + n) % ShardCount
       IN  IF n >= ShardCount
           THEN /\ opool.made < MaxObjects
                /\ opool' = [opool EXCEPT !.made = @ + 1]
                /\ pt' = [pt EXCEPT ![self] = [PoolRet(@, opool.made + 1)
                                                  EXCEPT !.made = @ + 1]]
           ELSE IF opool.mutex[o] # 0
           THEN /\ pt' = [pt EXCEPT ![self].n = n + 1, ![self].locked = @ \cup {o}]
                /\ UNCHANGED opool
           ELSE /\ opool' = [opool EXCEPT !.mutex[o] = self]
                /\ pt' = [pt EXCEPT ![self].pc = "StealLocked"]
    /\ UNCHANGED <<queueVars, extVars>>

\* A TryStealFromShard that releases the lock without taking the object.
StealLockedNothing(self) ==
    /\ pt[self].pc = "StealLocked"
    /\ LET o == (pt[self].shard_index + pt[self].n) % ShardCount
       IN  /\ opool' = [opool EXCEPT !.mutex[o] = 0]
           /\ pt' = [pt EXCEPT ![self].pc = "TryStealFromShard",
                               ![self].n = @ + 1]
    /\ UNCHANGED <<queueVars, extVars>>

\* TryStealFromShard with the lock owned.
StealLocked(self) ==
    /\ pt[self].pc = "StealLocked"
    /\ LET o == (pt[self].shard_index + pt[self].n) % ShardCount
           objs == opool.shards_[o]
       IN  IF objs = << >>
           THEN /\ opool' = [opool EXCEPT !.mutex[o] = 0]
                /\ pt' = [pt EXCEPT ![self].pc = "TryStealFromShard",
                                    ![self].n = @ + 1]
           ELSE /\ opool' = [opool EXCEPT !.mutex[o] = 0,
                                          !.shards_[o] = SubSeq(objs, 1, Len(objs) - 1)]
                /\ pt' = [pt EXCEPT ![self] = PoolRet(@, objs[Len(objs)])]
    /\ UNCHANGED <<queueVars, extVars>>

\* PutShared / PutToShard(CurrentShardIndex(), obj): the lock_guard.
PutShared(self) ==
    /\ pt[self].pc = "PutShared"
    /\ opool.alive
    /\ LET s == CurrentShardIndex(self)
       IN  /\ opool.mutex[s] = 0
           /\ opool' = [opool EXCEPT !.mutex[s] = self]
           /\ pt' = [pt EXCEPT ![self].pc = "PutToShard", ![self].shard_index = s]
    /\ UNCHANGED <<queueVars, extVars>>

\* PutToShard without the emplace_back.
PutToShardNothing(self) ==
    /\ pt[self].pc = "PutToShard"
    /\ opool' = [opool EXCEPT !.mutex[pt[self].shard_index] = 0]
    /\ pt' = [pt EXCEPT ![self] = [PoolRet(@, nullptr) EXCEPT !.items = << >>]]
    /\ UNCHANGED <<queueVars, extVars>>

\* objects.emplace_back(obj) under the lock (PutSharedBatch stores the
\* pointers of items).
PutToShard(self) ==
    /\ pt[self].pc = "PutToShard"
    /\ LET s == pt[self].shard_index
       IN  opool' = [opool EXCEPT !.mutex[s] = 0,
                                  !.shards_[s] = @ \o pt[self].items]
    /\ pt' = [pt EXCEPT ![self] = [PoolRet(@, nullptr) EXCEPT !.items = << >>]]
    /\ UNCHANGED <<queueVars, extVars>>

\* ClearShared: for every shard in turn, the lock_guard.
ClearShared(self) ==
    /\ pt[self].pc = "ClearShared"
    /\ opool.alive
    /\ LET s == pt[self].n
       IN  IF s >= ShardCount
           THEN /\ pt' = [pt EXCEPT ![self] = PoolRet(@, nullptr)]
                /\ UNCHANGED opool
           ELSE /\ opool.mutex[s] = 0
                /\ opool' = [opool EXCEPT !.mutex[s] = self]
                /\ pt' = [pt EXCEPT ![self].pc = "ClearShard"]
    /\ UNCHANGED <<queueVars, extVars>>

\* A ClearShared that unlocks a shard without clearing it.
ClearShardKeeps(self) ==
    /\ pt[self].pc = "ClearShard"
    /\ opool' = [opool EXCEPT !.mutex[pt[self].n] = 0]
    /\ pt' = [pt EXCEPT ![self].pc = "ClearShared", ![self].n = @ + 1]
    /\ UNCHANGED <<queueVars, extVars>>

\* shard.objects.clear() under the lock: every unique_ptr deletes its object.
ClearShard(self) ==
    /\ pt[self].pc = "ClearShard"
    /\ LET s == pt[self].n
       IN  opool' = [Delete(opool, Range(opool.shards_[s]))
                        EXCEPT !.mutex[s] = 0, !.shards_[s] = << >>]
    /\ pt' = [pt EXCEPT ![self].pc = "ClearShared", ![self].n = @ + 1]
    /\ UNCHANGED <<queueVars, extVars>>

CoreStep(self) ==
    \/ GetShared(self)
    \/ TryPopFromShard(self)
    \/ TryStealFromShard(self)
    \/ StealLocked(self)
    \/ PutShared(self)
    \/ PutToShard(self)
    \/ ClearShared(self)
    \/ ClearShard(self)

(***************************************************************************)
(* OpGuard of ObjectPoolTLS and ObjectPoolTLSv2 (fails while closing_) and *)
(* of ObjectPoolMap (waits while closing_).                                *)
(***************************************************************************)
\* What a call does once its guard is active.
Guarded(cls, op) ==
    IF cls = "ObjectPoolMap"
    THEN (IF op = "Get" THEN "MapGet" ELSE "MapPut")
    ELSE IF op = "Clear" THEN "ClearTlsSlotsLocked" ELSE "EnsureRegistered"

\* A failed guard that leaves the object of a Put undeleted.
GuardFailedKeeps(p, rec) ==
    [ pool |-> p, rec |-> PoolRet(rec, nullptr) ]

\* if (!guard): Get returns nullptr, Put deletes obj, Clear returns.
GuardFailed(p, rec) ==
    [ pool |-> IF rec.op = "Put" THEN Delete(p, {rec.obj}) ELSE p,
      rec |-> PoolRet(rec, nullptr) ]

\* OpGuard's constructor, the first closing_.load().
OpGuard(self) ==
    /\ pt[self].pc = "OpGuard"
    /\ opool.alive
    /\ IF ~opool.closing_
       THEN /\ pt' = [pt EXCEPT ![self].pc = "OpGuardEnter"]
            /\ UNCHANGED opool
       ELSE IF opool.cls = "ObjectPoolMap"
       THEN UNCHANGED <<opool, pt>>
       ELSE LET f == GuardFailed(opool, pt[self])
            IN  opool' = f.pool /\ pt' = [pt EXCEPT ![self] = f.rec]
    /\ UNCHANGED <<queueVars, extVars>>

\* active_ops_.fetch_add(1).
OpGuardEnter(self) ==
    /\ pt[self].pc = "OpGuardEnter"
    /\ opool.alive
    /\ opool' = [opool EXCEPT !.active_ops_ = @ + 1]
    /\ pt' = [pt EXCEPT ![self].pc = "OpGuardRecheck"]
    /\ UNCHANGED <<queueVars, extVars>>

\* The second closing_.load(): active_ = true when the flag is still clear.
OpGuardRecheck(self) ==
    /\ pt[self].pc = "OpGuardRecheck"
    /\ opool.alive
    /\ pt' = [pt EXCEPT ![self] =
                 IF opool.closing_ THEN [@ EXCEPT !.pc = "OpGuardUndo"]
                 ELSE [@ EXCEPT !.pc = Guarded(opool.cls, pt[self].op), !.active_ = TRUE]]
    /\ UNCHANGED <<opool, queueVars, extVars>>

\* active_ops_.fetch_sub(1) of a guard that saw closing_: the guard of
\* ObjectPoolMap starts over, the others fail.
OpGuardUndo(self) ==
    /\ pt[self].pc = "OpGuardUndo"
    /\ opool.alive
    /\ LET p == [opool EXCEPT !.active_ops_ = @ - 1]
           f == GuardFailed(p, pt[self])
       IN  IF opool.cls = "ObjectPoolMap"
           THEN opool' = p /\ pt' = [pt EXCEPT ![self].pc = "OpGuard"]
           ELSE opool' = f.pool /\ pt' = [pt EXCEPT ![self] = f.rec]
    /\ UNCHANGED <<queueVars, extVars>>

\* ~OpGuard at the end of the call: active_ops_.fetch_sub(1) if active_.
OpGuardLeave(self) ==
    /\ pt[self].pc = "OpGuardLeave"
    /\ opool.alive
    /\ opool' = [opool EXCEPT !.active_ops_ = IF pt[self].active_ THEN @ - 1 ELSE @]
    /\ pt' = [pt EXCEPT ![self].pc = "done", ![self].active_ = FALSE]
    /\ UNCHANGED <<queueVars, extVars>>

\* A call's result, with the guard still to be left.
GuardedRet(rec, v) == [rec EXCEPT !.pc = "OpGuardLeave", !.cont = "done", !.ret = v]

(***************************************************************************)
(* ObjectPoolTLS (object_pool_tls.hpp).                                    *)
(***************************************************************************)
\* EnsureRegistered: owner == this returns; else the CAS of owner from
\* nullptr to this, whose failure returns too.
EnsureRegistered(self) ==
    /\ pt[self].pc = "EnsureRegistered"
    /\ IF opool.cache[self].owner = nullptr
       THEN /\ opool' = [opool EXCEPT !.cache[self].owner = this]
            /\ pt' = [pt EXCEPT ![self].pc = "Register"]
       ELSE /\ pt' = [pt EXCEPT ![self].pc = "OwnerLoad"]
            /\ UNCHANGED opool
    /\ UNCHANGED <<queueVars, extVars>>

\* registry_.push_back(&cache) under registry_mutex_.
Register(self) ==
    /\ pt[self].pc = "Register"
    /\ opool.alive
    /\ opool.registry_mutex_ = 0
    /\ opool' = [opool EXCEPT !.registry_ = @ \cup {self}]
    /\ pt' = [pt EXCEPT ![self].pc = "OwnerLoad"]
    /\ UNCHANGED <<queueVars, extVars>>

\* if (cache.owner.load() == this) in Get and in Put.
OwnerLoad(self) ==
    /\ pt[self].pc = "OwnerLoad"
    /\ LET mine == opool.cache[self].owner = this
           v2 == opool.cls = "ObjectPoolTLSv2"
       IN  pt' = [pt EXCEPT ![self] =
                    IF pt[self].op = "Get"
                    THEN [@ EXCEPT !.pc = IF ~mine THEN "GetShared"
                                          ELSE IF v2 THEN "GetFastSlot" ELSE "GetPrivate",
                                   !.cont = "OpGuardLeave"]
                    ELSE [@ EXCEPT !.pc = IF ~mine THEN "PutShared"
                                          ELSE IF v2 THEN "PutFastSlot" ELSE "PutPrivate",
                                   !.items = <<pt[self].obj>>,
                                   !.cont = "OpGuardLeave"]]
    /\ UNCHANGED <<opool, queueVars, extVars>>

\* Get's fast path: private_obj.exchange(nullptr) if the slot is not empty.
GetPrivate(self) ==
    /\ pt[self].pc = "GetPrivate"
    /\ LET p == opool.cache[self].private_obj
       IN  IF p # nullptr
           THEN /\ opool' = [opool EXCEPT !.cache[self].private_obj = nullptr]
                /\ pt' = [pt EXCEPT ![self] = GuardedRet(@, p)]
           ELSE /\ pt' = [pt EXCEPT ![self].pc = "GetShared"]
                /\ UNCHANGED opool
    /\ UNCHANGED <<queueVars, extVars>>

\* Put's fast path: the CAS of private_obj from nullptr to obj.
PutPrivate(self) ==
    /\ pt[self].pc = "PutPrivate"
    /\ IF opool.cache[self].private_obj = nullptr
       THEN /\ opool' = [opool EXCEPT !.cache[self].private_obj = pt[self].obj]
            /\ pt' = [pt EXCEPT ![self] = [GuardedRet(@, nullptr) EXCEPT !.items = << >>]]
       ELSE /\ pt' = [pt EXCEPT ![self].pc = "PutShared"]
            /\ UNCHANGED opool
    /\ UNCHANGED <<queueVars, extVars>>

\* The slots of a cache emptied by exchange(nullptr), and their objects.
Emptied(c) ==
    [c EXCEPT !.private_obj = nullptr, !.fast_slot = nullptr,
              !.batch = [i \in BatchSlots |-> nullptr], !.batch_count = 0]
Cached(c) ==
    ({c.private_obj, c.fast_slot} \cup {c.batch[i] : i \in BatchSlots}) \ {nullptr}

\* Clear: the lock of registry_mutex_; then one registered cache after the
\* other.
ClearTlsSlotsLocked(self) ==
    /\ pt[self].pc = "ClearTlsSlotsLocked"
    /\ opool.alive
    /\ opool.registry_mutex_ = 0
    /\ opool' = [opool EXCEPT !.registry_mutex_ = self]
    /\ pt' = [pt EXCEPT ![self].pc = "ClearTlsSlot", ![self].todo = opool.registry_]
    /\ UNCHANGED <<queueVars, extVars>>

\* ClearTlsSlotsLocked, one cache: its slots are exchanged with nullptr and
\* the objects deleted if its owner is this pool.  After the last one the
\* mutex is released.
ClearTlsSlot(self) ==
    /\ pt[self].pc = "ClearTlsSlot"
    /\ IF pt[self].todo = {}
       THEN /\ opool' = [opool EXCEPT !.registry_mutex_ = 0]
            /\ pt' = [pt EXCEPT ![self].pc = "WaitForActiveOpsAtMost"]
       ELSE \E c \in pt[self].todo :
              /\ opool' = IF opool.cache[c].owner = this
                          THEN [Delete(opool, Cached(opool.cache[c]))
                                   EXCEPT !.cache[c] = Emptied(@)]
                          ELSE opool
              /\ pt' = [pt EXCEPT ![self].todo = @ \ {c}]
    /\ UNCHANGED <<queueVars, extVars>>

\* WaitForActiveOpsAtMost(threshold, timeout) of Clear (threshold 1) and of
\* CloseAndClear (threshold 0): it returns when active_ops_ is at most the
\* threshold, and when the deadline has passed.  Its result is not used.
WaitForActiveOpsAtMost(self) ==
    /\ pt[self].pc = "WaitForActiveOpsAtMost"
    /\ opool.alive
    /\ LET threshold == IF pt[self].op = "Clear" THEN 1 ELSE 0
       IN  \E deadline_passed \in BOOLEAN :
              /\ deadline_passed \/ opool.active_ops_ <= threshold
              /\ pt' = [pt EXCEPT ![self].timed_out =
                                      ~(opool.active_ops_ <= threshold),
                                  ![self].pc = IF pt[self].op = "Clear"
                                               THEN "ClearShared" ELSE "CloseLock",
                                  ![self].n = 0,
                                  ![self].cont = IF pt[self].op = "Clear"
                                                 THEN "OpGuardLeave" ELSE "CoreDtor"]
    /\ UNCHANGED <<opool, queueVars, extVars>>

\* ~ObjectPoolTLS / CloseAndClear: closing_.store(true, release).  The
\* store is in the thread's store buffer until PoolClosingVisible.
CloseAndClear(self) ==
    /\ pt[self].pc = "CloseAndClear"
    /\ opool' = [opool EXCEPT !.closing_buf = <<TRUE>>]
    /\ pt' = [pt EXCEPT ![self].pc = "WaitForActiveOpsAtMost"]
    /\ UNCHANGED <<queueVars, extVars>>

\* The buffered store of closing_ reaches memory.
PoolClosingVisible ==
    /\ opool.cls # "none"
    /\ opool.closing_buf # << >>
    /\ opool' = [opool EXCEPT !.closing_ = Head(opool.closing_buf), !.closing_buf = << >>]
    /\ UNCHANGED <<pt, queueVars, extVars>>

\* CloseAndClear: the lock of registry_mutex_ (a locked operation: the
\* store buffer is drained).
CloseLock(self) ==
    /\ pt[self].pc = "CloseLock"
    /\ opool.closing_buf = << >>
    /\ opool.registry_mutex_ = 0
    /\ opool' = [opool EXCEPT !.registry_mutex_ = self]
    /\ pt' = [pt EXCEPT ![self].pc = "CloseSlot", ![self].todo = opool.registry_]
    /\ UNCHANGED <<queueVars, extVars>>

\* CloseAndClear, one registered cache of this pool: owner.store(nullptr),
\* the slots exchanged with nullptr and the objects deleted.  After the
\* last one registry_.clear() and the unlock.
CloseSlot(self) ==
    /\ pt[self].pc = "CloseSlot"
    /\ IF pt[self].todo = {}
       THEN /\ opool' = [opool EXCEPT !.registry_mutex_ = 0, !.registry_ = {}]
            /\ pt' = [pt EXCEPT ![self].pc = "ClearShared", ![self].n = 0]
       ELSE \E c \in pt[self].todo :
              /\ opool' = IF opool.cache[c].owner = this
                          THEN [Delete(opool, Cached(opool.cache[c]))
                                   EXCEPT !.cache[c] = [Emptied(@) EXCEPT !.owner = nullptr]]
                          ELSE opool
              /\ pt' = [pt EXCEPT ![self].todo = @ \ {c}]
    /\ UNCHANGED <<queueVars, extVars>>

\* ~ObjectPoolCore: ClearShared() once more.
CoreDtor(self) ==
    /\ pt[self].pc = "CoreDtor"
    /\ pt' = [pt EXCEPT ![self].pc = "ClearShared", ![self].n = 0,
                        ![self].cont = "Destroyed"]
    /\ UNCHANGED <<opool, queueVars, extVars>>

\* The members are destroyed (the unique_ptrs of the shards delete what is
\* left) and the pool's storage is released.
Destroyed(self) ==
    /\ pt[self].pc = "Destroyed"
    /\ opool' = [Delete(opool, InShards(opool))
                    EXCEPT !.alive = FALSE,
                           !.shards_ = [s \in Shards |-> << >>]]
    /\ pt' = [pt EXCEPT ![self].pc = "done"]
    /\ UNCHANGED <<queueVars, extVars>>

\* Thread exit, ~LocalCache: owner.load(); OnThreadExit of the owner.  (A
\* cache owned by another pool is that pool's to drain.)
LocalCacheDtor(self) ==
    /\ pt[self].pc = "LocalCacheDtor"
    /\ pt' = [pt EXCEPT ![self].pc = IF opool.cache[self].owner = this
                                     THEN "OnThreadExit" ELSE "done"]
    /\ UNCHANGED <<opool, queueVars, extVars>>

\* OnThreadExit: active_ops_.fetch_add(1).
OnThreadExit(self) ==
    /\ pt[self].pc = "OnThreadExit"
    /\ opool.alive
    /\ opool' = [opool EXCEPT !.active_ops_ = @ + 1]
    /\ pt' = [pt EXCEPT ![self].pc = "ExitDrain"]
    /\ UNCHANGED <<queueVars, extVars>>

\* OnThreadExit: owner.store(nullptr) and the slots exchanged with nullptr.
ExitDrain(self) ==
    /\ pt[self].pc = "ExitDrain"
    /\ LET c == opool.cache[self]
           objs == Cached(c)
       IN  /\ opool' = [opool EXCEPT !.cache[self] = [Emptied(c) EXCEPT !.owner = nullptr]]
           /\ pt' = [pt EXCEPT ![self].pc = IF objs = {} THEN "Unregister"
                                            ELSE "ExitClosing",
                               ![self].items = SeqOf(objs)]
    /\ UNCHANGED <<queueVars, extVars>>

\* OnThreadExit: closing_.load(); PutShared of the objects if it is clear,
\* delete if it is set.
ExitClosing(self) ==
    /\ pt[self].pc = "ExitClosing"
    /\ opool.alive
    /\ IF ~opool.closing_
       THEN /\ pt' = [pt EXCEPT ![self].pc = "PutShared", ![self].cont = "Unregister"]
            /\ UNCHANGED opool
       ELSE /\ opool' = Delete(opool, Range(pt[self].items))
            /\ pt' = [pt EXCEPT ![self].pc = "Unregister", ![self].items = << >>]
    /\ UNCHANGED <<queueVars, extVars>>

\* Unregister(cache) under registry_mutex_, then active_ops_.fetch_sub(1).
Unregister(self) ==
    /\ pt[self].pc = "Unregister"
    /\ opool.alive
    /\ opool.registry_mutex_ = 0
    /\ opool' = [opool EXCEPT !.registry_ = @ \ {self}]
    /\ pt' = [pt EXCEPT ![self].pc = "ExitLeave"]
    /\ UNCHANGED <<queueVars, extVars>>

ExitLeave(self) ==
    /\ pt[self].pc = "ExitLeave"
    /\ opool.alive
    /\ opool' = [opool EXCEPT !.active_ops_ = @ - 1]
    /\ pt' = [pt EXCEPT ![self].pc = "done"]
    /\ UNCHANGED <<queueVars, extVars>>

TlsStep(self) ==
    \/ OpGuard(self)
    \/ OpGuardEnter(self)
    \/ OpGuardRecheck(self)
    \/ OpGuardUndo(self)
    \/ OpGuardLeave(self)
    \/ EnsureRegistered(self)
    \/ Register(self)
    \/ OwnerLoad(self)
    \/ GetPrivate(self)
    \/ PutPrivate(self)
    \/ ClearTlsSlotsLocked(self)
    \/ ClearTlsSlot(self)
    \/ WaitForActiveOpsAtMost(self)
    \/ CloseAndClear(self)
    \/ CloseLock(self)
    \/ CloseSlot(self)
    \/ CoreDtor(self)
    \/ Destroyed(self)
    \/ LocalCacheDtor(self)
    \/ OnThreadExit(self)
    \/ ExitDrain(self)
    \/ ExitClosing(self)
    \/ Unregister(self)
    \/ ExitLeave(self)

(***************************************************************************)
(* ObjectPoolMap (object_pool_map.hpp): the caches are the entries of      *)
(* caches_, under the shared_mutex cache_mutex_.                           *)
(***************************************************************************)
\* Get under the shared lock: the exchange of the thread's entry, if any.
MapGet(self) ==
    /\ pt[self].pc = "MapGet"
    /\ opool.alive
    /\ opool.cache_mutex_.unique = 0
    /\ LET p == opool.cache[self].private_obj
       IN  IF self \in opool.caches_ /\ p # nullptr
           THEN /\ opool' = [opool EXCEPT !.cache[self].private_obj = nullptr]
                /\ pt' = [pt EXCEPT ![self] = GuardedRet(@, p)]
           ELSE /\ pt' = [pt EXCEPT ![self].pc = "GetShared",
                                    ![self].cont = "OpGuardLeave"]
                /\ UNCHANGED opool
    /\ UNCHANGED <<queueVars, extVars>>

\* Put under the shared lock: the CAS of the thread's entry; PutShared,
\* still under the shared lock, if the entry is taken; the registration if
\* there is no entry.
MapPut(self) ==
    /\ pt[self].pc = "MapPut"
    /\ opool.alive
    /\ opool.cache_mutex_.unique = 0
    /\ IF self \notin opool.caches_
       THEN /\ pt' = [pt EXCEPT ![self].pc = "MapRegister"]
            /\ UNCHANGED opool
       ELSE IF opool.cache[self].private_obj = nullptr
       THEN /\ opool' = [opool EXCEPT !.cache[self].private_obj = pt[self].obj]
            /\ pt' = [pt EXCEPT ![self] = GuardedRet(@, nullptr)]
       ELSE /\ opool' = [opool EXCEPT !.cache_mutex_.shared = @ \cup {self}]
            /\ pt' = [pt EXCEPT ![self].pc = "PutShared",
                                ![self].items = <<pt[self].obj>>,
                                ![self].cont = "MapPutUnlock"]
    /\ UNCHANGED <<queueVars, extVars>>

\* The end of the shared lock of a Put that went to the shard.
MapPutUnlock(self) ==
    /\ pt[self].pc = "MapPutUnlock"
    /\ opool' = [opool EXCEPT !.cache_mutex_.shared = @ \ {self}]
    /\ pt' = [pt EXCEPT ![self] = GuardedRet(@, nullptr)]
    /\ UNCHANGED <<queueVars, extVars>>

\* Put's registration under the unique lock: try_emplace(tid) and the CAS
\* of the entry; PutShared after the unlock if the CAS fails.
MapRegister(self) ==
    /\ pt[self].pc = "MapRegister"
    /\ opool.alive
    /\ opool.cache_mutex_.unique = 0
    /\ opool.cache_mutex_.shared = {}
    /\ IF opool.cache[self].private_obj = nullptr
       THEN /\ opool' = [opool EXCEPT !.caches_ = @ \cup {self},
                                      !.cache[self].private_obj = pt[self].obj]
            /\ pt' = [pt EXCEPT ![self] = GuardedRet(@, nullptr)]
       ELSE /\ opool' = [opool EXCEPT !.caches_ = @ \cup {self}]
            /\ pt' = [pt EXCEPT ![self].pc = "PutShared",
                                ![self].items = <<pt[self].obj>>,
                                ![self].cont = "OpGuardLeave"]
    /\ UNCHANGED <<queueVars, extVars>>

\* Clear: closing_.store(true, release), in the store buffer until
\* PoolClosingVisible.
MapClear(self) ==
    /\ pt[self].pc = "MapClear"
    /\ opool.alive
    /\ opool.closing_buf = << >>
    /\ opool' = [opool EXCEPT !.closing_buf = <<TRUE>>]
    /\ pt' = [pt EXCEPT ![self].pc = "MapClearWait"]
    /\ UNCHANGED <<queueVars, extVars>>

\* Clear: while (active_ops_.load() != 0) yield.
MapClearWait(self) ==
    /\ pt[self].pc = "MapClearWait"
    /\ opool.active_ops_ = 0
    /\ pt' = [pt EXCEPT ![self].pc = "MapClearSlots"]
    /\ UNCHANGED <<opool, queueVars, extVars>>

\* Clear under the unique lock (a locked operation: the store buffer is
\* drained): every entry is exchanged with nullptr and its object deleted.
MapClearSlots(self) ==
    /\ pt[self].pc = "MapClearSlots"
    /\ opool.closing_buf = << >>
    /\ opool.cache_mutex_.unique = 0
    /\ opool.cache_mutex_.shared = {}
    /\ LET objs == {opool.cache[t].private_obj : t \in opool.caches_} \ {nullptr}
       IN  opool' = [Delete(opool, objs) EXCEPT
                        !.cache = [t \in Threads |->
                                      IF t \in opool.caches_
                                      THEN [@[t] EXCEPT !.private_obj = nullptr]
                                      ELSE @[t]]]
    /\ pt' = [pt EXCEPT ![self].pc = "ClearShared", ![self].n = 0,
                        ![self].cont = "MapClearOpen"]
    /\ UNCHANGED <<queueVars, extVars>>

\* Clear: closing_.store(false, release).  ~ObjectPoolMap is Clear() and
\* the destruction of the members.
MapClearOpen(self) ==
    /\ pt[self].pc = "MapClearOpen"
    /\ opool' = [opool EXCEPT !.closing_ = FALSE]
    /\ pt' = [pt EXCEPT ![self].pc = IF pt[self].op = "Dtor" THEN "CoreDtor" ELSE "done"]
    /\ UNCHANGED <<queueVars, extVars>>

MapStep(self) ==
    \/ MapGet(self)
    \/ MapPut(self)
    \/ MapPutUnlock(self)
    \/ MapRegister(self)
    \/ MapClear(self)
    \/ MapClearWait(self)
    \/ MapClearSlots(self)
    \/ MapClearOpen(self)

(***************************************************************************)
(* ObjectPoolTLSv2 (object_pool_tls_v2.hpp): a fast slot and a batch per   *)
(* thread.  The guard, the registry, Clear, CloseAndClear and OnThreadExit *)
(* are those of ObjectPoolTLS, over all the slots of a cache.  The slots   *)
(* of one cache are written by its thread only; other threads exchange     *)
(* them with nullptr.                                                      *)
(***************************************************************************)
\* Get: fast_slot.exchange(nullptr) if the slot is not empty.
GetFastSlot(self) ==
    /\ pt[self].pc = "GetFastSlot"
    /\ LET p == opool.cache[self].fast_slot
       IN  IF p # nullptr
           THEN /\ opool' = [opool EXCEPT !.cache[self].fast_slot = nullptr]
                /\ pt' = [pt EXCEPT ![self] = GuardedRet(@, p)]
           ELSE /\ pt' = [pt EXCEPT ![self].pc = "TryPopBatch",
                                    ![self].n = Min(opool.cache[self].batch_count,
                                                    kMaxBatchSize)]
                /\ UNCHANGED opool
    /\ UNCHANGED <<queueVars, extVars>>

\* TryPopBatch, the loop on count (kept in n): the CAS of batch_count from
\* count to count - 1, whose failure reloads count; at count 0 the walk over
\* all the slots, which takes the first object it finds.
TryPopBatch(self) ==
    /\ pt[self].pc = "TryPopBatch"
    /\ LET c == opool.cache[self]
           count == pt[self].n
           full == {i \in BatchSlots : c.batch[i] # nullptr}
           i == CHOOSE i \in full : \A j \in full : i <= j
       IN  IF count > 0
           THEN IF c.batch_count = count
                THEN /\ opool' = [opool EXCEPT !.cache[self].batch_count = count - 1]
                     /\ pt' = [pt EXCEPT ![self].pc = "PopBatchSlot"]
                ELSE /\ pt' = [pt EXCEPT ![self].n = c.batch_count]
                     /\ UNCHANGED opool
           ELSE IF full # {}
           THEN /\ opool' = [opool EXCEPT
                               !.cache[self].batch[i] = nullptr,
                               !.cache[self].batch_count = IF @ > 0 THEN @ - 1 ELSE 0]
                /\ pt' = [pt EXCEPT ![self] = GuardedRet(@, c.batch[i])]
           ELSE /\ opool' = [opool EXCEPT !.cache[self].batch_count = 0]
                /\ pt' = [pt EXCEPT ![self].pc = "GetSharedBatch"]
    /\ UNCHANGED <<queueVars, extVars>>

\* TryPopBatch: batch[count - 1].exchange(nullptr) after the CAS.
PopBatchSlot(self) ==
    /\ pt[self].pc = "PopBatchSlot"
    /\ LET i == pt[self].n - 1
           p == opool.cache[self].batch[i]
       IN  IF p # nullptr
           THEN /\ opool' = [opool EXCEPT !.cache[self].batch[i] = nullptr]
                /\ pt' = [pt EXCEPT ![self] = GuardedRet(@, p)]
           ELSE /\ pt' = [pt EXCEPT ![self].pc = "TryPopBatch"]
                /\ UNCHANGED opool
    /\ UNCHANGED <<queueVars, extVars>>

\* GetSharedBatch(out, EffectiveBatchSize(cache)): a batch from the
\* thread's shard (ObjectPoolShard::GetBatch, the lock_guard).
GetSharedBatch(self) ==
    /\ pt[self].pc = "GetSharedBatch"
    /\ opool.alive
    /\ LET s == CurrentShardIndex(self)
       IN  /\ opool.mutex[s] = 0
           /\ opool' = [opool EXCEPT !.mutex[s] = self]
           /\ pt' = [pt EXCEPT ![self].pc = "GetBatch", ![self].shard_index = s]
    /\ UNCHANGED <<queueVars, extVars>>

\* The objects GetBatch and TryStealBatch take from the back of a shard,
\* in the order of out[].
BatchOf(objs, max_count) ==
    LET count == Min(max_count, Len(objs))
    IN  [i \in 1..count |-> objs[Len(objs) + 1 - i]]

\* ObjectPoolShard::GetBatch under the lock; with nothing taken the other
\* shards are tried.
GetBatch(self) ==
    /\ pt[self].pc = "GetBatch"
    /\ LET s == pt[self].shard_index
           objs == opool.shards_[s]
           out == BatchOf(objs, opool.effective_batch_size)
       IN  /\ opool' = [opool EXCEPT !.mutex[s] = 0,
                                     !.shards_[s] = SubSeq(objs, 1, Len(objs) - Len(out))]
           /\ pt' = [pt EXCEPT ![self].pc = IF out = << >> THEN "TryStealBatch"
                                            ELSE "StoreBatch",
                               ![self].n = 1,
                               ![self].items = out]
    /\ UNCHANGED <<queueVars, extVars>>

\* ObjectPoolShard::TryStealBatch on the other shards, the try_to_lock;
\* after the last shard Get goes on with GetShared().
TryStealBatch(self) ==
    /\ pt[self].pc = "TryStealBatch"
    /\ opool.alive
    /\ LET n == pt[self].n
           o == (pt[self].shard_index + n) % ShardCount
       IN  IF n >= ShardCount
           THEN /\ pt' = [pt EXCEPT ![self].pc = "GetShared",
                                    ![self].cont = "OpGuardLeave"]
                /\ UNCHANGED opool
           ELSE IF opool.mutex[o] # 0
           THEN /\ pt' = [pt EXCEPT ![self].n = n + 1, ![self].locked = @ \cup {o}]
                /\ UNCHANGED opool
           ELSE /\ opool' = [opool EXCEPT !.mutex[o] = self]
                /\ pt' = [pt EXCEPT ![self].pc = "StealBatchLocked"]
    /\ UNCHANGED <<queueVars, extVars>>

\* TryStealBatch with the lock owned.
StealBatchLocked(self) ==
    /\ pt[self].pc = "StealBatchLocked"
    /\ LET o == (pt[self].shard_index + pt[self].n) % ShardCount
           objs == opool.shards_[o]
           out == BatchOf(objs, opool.effective_batch_size)
       IN  /\ opool' = [opool EXCEPT !.mutex[o] = 0,
                                     !.shards_[o] = SubSeq(objs, 1, Len(objs) - Len(out))]
           /\ pt' = [pt EXCEPT ![self].pc = IF out = << >> THEN "TryStealBatch"
                                            ELSE "StoreBatch",
                               ![self].n = IF out = << >> THEN @ + 1 ELSE @,
                               ![self].items = out]
    /\ UNCHANGED <<queueVars, extVars>>

\* Get with a batch from the shards: the last object is the result, the
\* others are stored in the batch slots, nullptr in the slots after them,
\* and their number in batch_count.
StoreBatch(self) ==
    /\ pt[self].pc = "StoreBatch"
    /\ LET batch == pt[self].items
           got == Len(batch)
           cached == got - 1
       IN  /\ opool' = [opool EXCEPT
                          !.cache[self].batch =
                              [i \in BatchSlots |-> IF i < cached THEN batch[i + 1]
                                                    ELSE nullptr],
                          !.cache[self].batch_count = cached]
           /\ pt' = [pt EXCEPT ![self] = [GuardedRet(@, batch[got]) EXCEPT !.items = << >>]]
    /\ UNCHANGED <<queueVars, extVars>>

\* Put: the CAS of fast_slot from nullptr to obj.
PutFastSlot(self) ==
    /\ pt[self].pc = "PutFastSlot"
    /\ IF opool.cache[self].fast_slot = nullptr
       THEN /\ opool' = [opool EXCEPT !.cache[self].fast_slot = pt[self].obj]
            /\ pt' = [pt EXCEPT ![self] = [GuardedRet(@, nullptr) EXCEPT !.items = << >>]]
       ELSE /\ pt' = [pt EXCEPT ![self].pc = "TryPushBatch",
                                ![self].n = opool.cache[self].batch_count]
            /\ UNCHANGED opool
    /\ UNCHANGED <<queueVars, extVars>>

\* TryPushBatch with count (in n) loaded: false at count >= limit; else the
\* CAS of batch[count] from nullptr to obj, and after its failure of the
\* first empty slot below limit.
TryPushBatch(self) ==
    /\ pt[self].pc = "TryPushBatch"
    /\ LET c == opool.cache[self]
           limit == opool.effective_batch_size
           count == pt[self].n
           free == {i \in 0..(limit - 1) : c.batch[i] = nullptr}
           i == IF count < kMaxBatchSize /\ c.batch[count] = nullptr THEN count
                ELSE CHOOSE i \in free : \A j \in free : i <= j
       IN  IF count >= limit
              \/ (~(count < kMaxBatchSize /\ c.batch[count] = nullptr) /\ free = {})
           THEN /\ pt' = [pt EXCEPT ![self].pc = "DrainBatch"]
                /\ UNCHANGED opool
           ELSE /\ opool' = [opool EXCEPT !.cache[self].batch[i] = pt[self].obj]
                /\ pt' = [pt EXCEPT ![self].pc = "IncrementBatchCount"]
    /\ UNCHANGED <<queueVars, extVars>>

\* IncrementBatchCount: fetch_add(1), and store(kMaxBatchSize) over a
\* previous value of kMaxBatchSize or more.
IncrementBatchCount(self) ==
    /\ pt[self].pc = "IncrementBatchCount"
    /\ opool' = [opool EXCEPT !.cache[self].batch_count =
                                  IF @ >= kMaxBatchSize THEN kMaxBatchSize ELSE @ + 1]
    /\ pt' = [pt EXCEPT ![self] = [GuardedRet(@, nullptr) EXCEPT !.items = << >>]]
    /\ UNCHANGED <<queueVars, extVars>>

\* DrainBatch: every batch slot is exchanged with nullptr, batch_count is
\* stored 0; the objects and obj go to PutSharedBatch (the thread's shard).
DrainBatch(self) ==
    /\ pt[self].pc = "DrainBatch"
    /\ LET c == opool.cache[self]
           full == {i \in BatchSlots : c.batch[i] # nullptr}
           out == [k \in 1..Cardinality(full) |->
                      c.batch[CHOOSE i \in full :
                                 Cardinality({j \in full : j < i}) = k - 1]]
       IN  /\ opool' = [opool EXCEPT
                          !.cache[self].batch = [i \in BatchSlots |-> nullptr],
                          !.cache[self].batch_count = 0]
           /\ pt' = [pt EXCEPT ![self].pc = "PutShared",
                               ![self].items = out \o <<pt[self].obj>>]
    /\ UNCHANGED <<queueVars, extVars>>

Tlsv2Step(self) ==
    \/ GetFastSlot(self)
    \/ TryPopBatch(self)
    \/ PopBatchSlot(self)
    \/ GetSharedBatch(self)
    \/ GetBatch(self)
    \/ TryStealBatch(self)
    \/ StealBatchLocked(self)
    \/ StoreBatch(self)
    \/ PutFastSlot(self)
    \/ TryPushBatch(self)
    \/ IncrementBatchCount(self)
    \/ DrainBatch(self)

\* No pool: a queue is under test.
PoolNone == [cls |-> "none"]

Init ==
    /\ kind \in {"ncq", "scq", "scqp", "lscq"}
    /\ \E scqsize \in 1..MaxScqSizeArg, force_fallback \in BOOLEAN :
          /\ kind # "scqp" => ~force_fallback
          /\ ring = [n \in Nodes |-> NewRing(kind, scqsize, force_fallback)]
    /\ lq = IF kind = "lscq" THEN LscqNew ELSE LscqNone
    /\ th = [t \in Threads |-> Idle]
    /\ prog \in IF kind = "lscq" THEN LscqProgs(ring[1].scqsize_)
                 ELSE IF kind = "ncq" THEN NcqProgs(ring[1].capacity_)
                 ELSE RingProgs(ring[1])
    /\ hist = HistInit
    /\ opool = PoolNone
    /\ pt = [t \in Threads |-> PoolThread({}, FALSE)]
    /\ slot = SlotNone
    /\ ct = [t \in Threads |-> << >>]
    /\ ebr = EbrNone
    /\ et = [t \in Threads |-> << >>]

NcqStep(self) ==
    \/ NcqEnqueue(self)
    \/ NcqEnqTail(self)
    \/ NcqEnqLoad(self)
    \/ NcqEnqHelp(self)
    \/ NcqEnqCas(self)
    \/ NcqEnqAdvance(self)
    \/ NcqDequeue(self)
    \/ NcqDeqLoad(self)
    \/ NcqDeqCas(self)

ScqStep(self) ==
    \/ ScqEnqueue(self)
    \/ ScqEnqTicket(self)
    \/ ScqEnqLoad(self)
    \/ ScqEnqHead(self)
    \/ ScqEnqCas(self)
    \/ ScqEnqThreshold(self)
    \/ ScqDequeue(self)
    \/ ScqDeqCheckHead(self)
    \/ ScqDeqCheckTail(self)
    \/ ScqDeqThresholdStore(self)
    \/ ScqDeqTicket(self)
    \/ ScqDeqLoad(self)
    \/ ScqDeqConsume(self)
    \/ ScqDeqCas(self)
    \/ ScqDeqTail(self)
    \/ ScqDeqPenalize(self)
    \/ ScqDeqNowHead(self)
    \/ ScqDeqNowTail(self)

ScqpStep(self) ==
    \/ ScqpEnqueue(self)
    \/ ScqpEnqLoadDeqSuccess(self)
    \/ ScqpEnqLoadEnqSuccess(self)
    \/ ScqpEnqTicket(self)
    \/ ScqpEnqLoad(self)
    \/ ScqpEnqHead(self)
    \/ ScqpEnqSidePut(self)
    \/ ScqpEnqCas(self)
    \/ ScqpEnqSideUndo(self)
    \/ ScqpEnqThreshold(self)
    \/ ScqpEnqCount(self)
    \/ ScqpDequeue(self)
    \/ ScqpDeqCheckHead(self)
    \/ ScqpDeqCheckTail(self)
    \/ ScqpDeqThresholdStore(self)
    \/ ScqpDeqTicket(self)
    \/ ScqpDeqLoad(self)
    \/ ScqpDeqTakePtr(self)
    \/ ScqpDeqTakeSide(self)
    \/ ScqpDeqTakeIndex(self)
    \/ ScqpDeqCount(self)
    \/ ScqpDeqCas(self)
    \/ ScqpDeqTail(self)
    \/ ScqpDeqPenalize(self)
    \/ ScqpDeqNowHead(self)
    \/ ScqpDeqNowTail(self)

FixStep(self) ==
    \/ FixStateHead(self)
    \/ FixStateTail(self)
    \/ FixStateCas(self)

LscqStep(self) ==
    \/ ActiveOpsEnter(self)
    \/ ActiveOpsLeave(self)
    \/ LscqEnqueue(self)
    \/ LscqDequeue(self)
    \/ LscqRecheck(self)
    \/ LscqEnqTail(self)
    \/ LscqEnqFinalize(self)
    \/ LscqEnqGet(self)
    \/ LscqEnqStoreNext(self)
    \/ LscqEnqStoreFinalized(self)
    \/ LscqEnqReset(self)
    \/ LscqEnqLink(self)
    \/ LscqEnqNext(self)
    \/ LscqEnqAdvance(self)
    \/ LscqDeqHead(self)
    \/ LscqDeqNext(self)
    \/ LscqDeqFinalized(self)
    \/ LscqDeqRetry(self)
    \/ ScqpIsEmptyHead(self)
    \/ ScqpIsEmptyTail(self)
    \/ LscqDeqAdvance(self)
    \/ LscqDeqPut(self)
    \/ LscqDtor(self)
    \/ LscqDtorWait(self)
    \/ LscqDtorWalk(self)

Next ==
    \/ Sync
    \/ LscqClosingVisible
    \/ \E self \in Threads :
        \/ Invoke(self)
        \/ Respond(self)
        \/ NcqStep(self)
        \/ ScqStep(self)
        \/ ScqpStep(self)
        \/ FixStep(self)
        \/ LscqStep(self)

Spec == Init /\ [][Next]_vars

(***************************************************************************)
(* The LSCQ while a node goes through the pool and comes back into the     *)
(* list, under the schedules in which the calls of thread 1 are not        *)
(* preempted: another thread takes a step only between two calls of        *)
(* thread 1.  Every behaviour of SpecRecycle is a behaviour of the queue.  *)
(***************************************************************************)
RecycleInit ==
    /\ kind = "lscq"
    /\ \E scqsize \in 1..MaxScqSizeArg :
          ring = [n \in Nodes |-> ScqpNew(scqsize, FALSE)]
    /\ lq = LscqNew
    /\ th = [t \in Threads |-> Idle]
    /\ prog \in RecycleProgs(ring[1].scqsize_)
    /\ hist = HistInit
    /\ opool = PoolNone
    /\ pt = [t \in Threads |-> PoolThread({}, FALSE)]
    /\ slot = SlotNone
    /\ ct = [t \in Threads |-> << >>]
    /\ ebr = EbrNone
    /\ et = [t \in Threads |-> << >>]

\* The threads that may take a step.
Scheduled == {t \in Threads : t = 1 \/ th[1].pc \in {"idle", "done"}}

\* The steps of enqueue and dequeue on an LSCQ whose nodes are in pointer
\* mode.
RecycleStep(self) ==
    \/ self \in Scheduled /\ Invoke(self)
    \/ self \in Scheduled /\ Respond(self)
    \/ self \in Scheduled /\ ScqpEnqueue(self)
    \/ self \in Scheduled /\ ScqpEnqLoadDeqSuccess(self)
    \/ self \in Scheduled /\ ScqpEnqLoadEnqSuccess(self)
    \/ self \in Scheduled /\ ScqpEnqTicket(self)
    \/ self \in Scheduled /\ ScqpEnqLoad(self)
    \/ self \in Scheduled /\ ScqpEnqCas(self)
    \/ self \in Scheduled /\ ScqpEnqThreshold(self)
    \/ self \in Scheduled /\ ScqpEnqCount(self)
    \/ self \in Scheduled /\ ScqpDequeue(self)
    \/ self \in Scheduled /\ ScqpDeqCheckHead(self)
    \/ self \in Scheduled /\ ScqpDeqCheckTail(self)
    \/ self \in Scheduled /\ ScqpDeqThresholdStore(self)
    \/ self \in Scheduled /\ ScqpDeqTicket(self)
    \/ self \in Scheduled /\ ScqpDeqLoad(self)
    \/ self \in Scheduled /\ ScqpDeqTakePtr(self)
    \/ self \in Scheduled /\ ScqpDeqCount(self)
    \/ self \in Scheduled /\ ScqpDeqCas(self)
    \/ self \in Scheduled /\ ScqpDeqTail(self)
    \/ self \in Scheduled /\ ScqpDeqPenalize(self)
    \/ self \in Scheduled /\ ScqpDeqNowHead(self)
    \/ self \in Scheduled /\ ScqpDeqNowTail(self)
    \/ self \in Scheduled /\ FixStateHead(self)
    \/ self \in Scheduled /\ FixStateTail(self)
    \/ self \in Scheduled /\ FixStateCas(self)
    \/ self \in Scheduled /\ ActiveOpsEnter(self)
    \/ self \in Scheduled /\ ActiveOpsLeave(self)
    \/ self \in Scheduled /\ LscqEnqueue(self)
    \/ self \in Scheduled /\ LscqDequeue(self)
    \/ self \in Scheduled /\ LscqRecheck(self)
    \/ self \in Scheduled /\ LscqEnqTail(self)
    \/ self \in Scheduled /\ LscqEnqFinalize(self)
    \/ self \in Scheduled /\ LscqEnqGet(self)
    \/ self \in Scheduled /\ LscqEnqStoreNext(self)
    \/ self \in Scheduled /\ LscqEnqStoreFinalized(self)
    \/ self \in Scheduled /\ LscqEnqReset(self)
    \/ self \in Scheduled /\ LscqEnqLink(self)
    \/ self \in Scheduled /\ LscqEnqNext(self)
    \/ self \in Scheduled /\ LscqEnqAdvance(self)
    \/ self \in Scheduled /\ LscqDeqHead(self)
    \/ self \in Scheduled /\ LscqDeqNext(self)
    \/ self \in Scheduled /\ LscqDeqFinalized(self)
    \/ self \in Scheduled /\ LscqDeqRetry(self)
    \/ self \in Scheduled /\ ScqpIsEmptyHead(self)
    \/ self \in Scheduled /\ ScqpIsEmptyTail(self)
    \/ self \in Scheduled /\ LscqDeqAdvance(self)
    \/ self \in Scheduled /\ LscqDeqPut(self)

RecycleNext ==
    \/ Sync
    \/ \E self \in Threads : RecycleStep(self)

SpecRecycle == RecycleInit /\ [][RecycleNext]_vars

(***************************************************************************)
(* The SCQP with calls of reset_for_reuse, which its caller makes while no *)
(* other call is in progress.                                              *)
(***************************************************************************)
\* Any calls of one thread, a reset, further calls and a reset; dequeues on
\* the empty ring until the threshold is used up, a value through the ring
\* and a reset; enqueues beside dequeues, then the ring is drained and
\* reset; the tests of a ring, followed by dequeues of one thread and a
\* reset.
ResetProgs(r) ==
    { Progs(Rep("any", 4) \o <<"reset">> \o Rep("any", 2) \o <<"reset">>,
            << >>, << >>),
      Progs(Rep("deq", r.threshold_ + 1) \o <<"enq", "deq", "reset", "enq", "deq">>,
            << >>, << >>),
      Progs(<<"enq", "enq">> \o S \o <<"deq">> \o S
                \o <<"deq", "deq", "deq", "reset", "enq", "reset">>,
            S \o <<"deq">> \o S,
            S \o <<"enq">> \o S) }
        \cup { [t \in Threads |->
                  p[t] \o S \o (IF t = 1
                                THEN Rep("deq", r.scqsize_) \o <<"reset", "enq", "deq">>
                                ELSE << >>)] :
                p \in LapProgs(r.scqsize_) \cup FullProgs(r.scqsize_) \cup RaceProgs
                         \cup DrainProgs(r.threshold_) }

ResetInit ==
    /\ kind = "scqp"
    /\ \E scqsize \in 1..MaxScqSizeArg, force_fallback \in BOOLEAN :
          ring = [n \in Nodes |-> NewRing(kind, scqsize, force_fallback)]
    /\ lq = LscqNone
    /\ th = [t \in Threads |-> Idle]
    /\ prog \in ResetProgs(ring[1])
    /\ hist = HistInit
    /\ opool = PoolNone
    /\ pt = [t \in Threads |-> PoolThread({}, FALSE)]
    /\ slot = SlotNone
    /\ ct = [t \in Threads |-> << >>]
    /\ ebr = EbrNone
    /\ et = [t \in Threads |-> << >>]

ResetStep(self) ==
    \/ Invoke(self)
    \/ Respond(self)
    \/ ScqpStep(self)
    \/ FixStep(self)
    \/ ScqpReset(self)

ResetNext ==
    \/ Sync
    \/ \E self \in Threads : ResetStep(self)

SpecReset == ResetInit /\ [][ResetNext]_vars

(***************************************************************************)
(* The SCQ alone, with a fair scheduler: the threads of a test are         *)
(* std::threads, so a thread whose next step stays possible takes it, and  *)
(* the join of a phase returns once every thread has finished.             *)
(***************************************************************************)
ScqInit == Init /\ kind = "scq"

ThreadStep(self) ==
    \/ Invoke(self)
    \/ Respond(self)
    \/ ScqStep(self)
    \/ FixStep(self)

ScqNext ==
    \/ Sync
    \/ \E self \in Threads : ThreadStep(self)

SpecScq ==
    /\ ScqInit
    /\ [][ScqNext]_vars
    /\ WF_vars(Sync)
    /\ \A t \in Threads : WF_vars(ThreadStep(t))

(***************************************************************************)
(* Every queue with a fair scheduler: a thread whose next step stays       *)
(* possible takes it, a buffered store reaches memory, and the join of a   *)
(* phase returns once every thread has finished.                           *)
(***************************************************************************)
AnyStep(self) ==
    \/ Invoke(self)
    \/ Respond(self)
    \/ NcqStep(self)
    \/ ScqStep(self)
    \/ ScqpStep(self)
    \/ FixStep(self)
    \/ LscqStep(self)

SpecFair ==
    /\ Init
    /\ [][Next]_vars
    /\ WF_vars(Sync)
    /\ WF_vars(LscqClosingVisible)
    /\ \A t \in Threads : WF_vars(AnyStep(t))

(***************************************************************************)
(* The LSCQ with threads that may stop anywhere: no thread is required to  *)
(* take its next step; only the join of a phase, once every thread has     *)
(* finished it, is certain to return.  The queue is not destroyed.         *)
(***************************************************************************)
\* The first node is full and finalized and holds one value when two
\* threads call dequeue.
StallProgs(size) ==
    { Progs(Rep("enq", size + 1) \o Rep("deq", size - 1) \o S \o <<"deq">>,
            S \o <<"deq">>,
            << >>) }

StallInit ==
    /\ kind = "lscq"
    /\ \E scqsize \in 1..MaxScqSizeArg :
          ring = [n \in Nodes |-> ScqpNew(scqsize, FALSE)]
    /\ lq = LscqNew
    /\ th = [t \in Threads |-> Idle]
    /\ prog \in (LscqProgs(ring[1].scqsize_) \ DtorProgs) \cup StallProgs(ring[1].scqsize_)
    /\ hist = HistInit
    /\ opool = PoolNone
    /\ pt = [t \in Threads |-> PoolThread({}, FALSE)]
    /\ slot = SlotNone
    /\ ct = [t \in Threads |-> << >>]
    /\ ebr = EbrNone
    /\ et = [t \in Threads |-> << >>]

\* The steps of enqueue and dequeue on an LSCQ whose nodes are in pointer
\* mode.
StallStep(self) ==
    \/ Invoke(self)
    \/ Respond(self)
    \/ ScqpEnqueue(self)
    \/ ScqpEnqLoadDeqSuccess(self)
    \/ ScqpEnqLoadEnqSuccess(self)
    \/ ScqpEnqTicket(self)
    \/ ScqpEnqLoad(self)
    \/ ScqpEnqHead(self)
    \/ ScqpEnqCas(self)
    \/ ScqpEnqThreshold(self)
    \/ ScqpEnqCount(self)
    \/ ScqpDequeue(self)
    \/ ScqpDeqCheckHead(self)
    \/ ScqpDeqCheckTail(self)
    \/ ScqpDeqThresholdStore(self)
    \/ ScqpDeqTicket(self)
    \/ ScqpDeqLoad(self)
    \/ ScqpDeqTakePtr(self)
    \/ ScqpDeqCount(self)
    \/ ScqpDeqCas(self)
    \/ ScqpDeqTail(self)
    \/ ScqpDeqPenalize(self)
    \/ ScqpDeqNowHead(self)
    \/ ScqpDeqNowTail(self)
    \/ FixStateHead(self)
    \/ FixStateTail(self)
    \/ FixStateCas(self)
    \/ ActiveOpsEnter(self)
    \/ ActiveOpsLeave(self)
    \/ LscqEnqueue(self)
    \/ LscqDequeue(self)
    \/ LscqRecheck(self)
    \/ LscqEnqTail(self)
    \/ LscqEnqFinalize(self)
    \/ LscqEnqGet(self)
    \/ LscqEnqStoreNext(self)
    \/ LscqEnqStoreFinalized(self)
    \/ LscqEnqReset(self)
    \/ LscqEnqLink(self)
    \/ LscqEnqNext(self)
    \/ LscqEnqAdvance(self)
    \/ LscqDeqHead(self)
    \/ LscqDeqNext(self)
    \/ LscqDeqFinalized(self)
    \/ LscqDeqRetry(self)
    \/ ScqpIsEmptyHead(self)
    \/ ScqpIsEmptyTail(self)
    \/ LscqDeqAdvance(self)
    \/ LscqDeqPut(self)

StallNext ==
    \/ Sync
    \/ \E self \in Threads : StallStep(self)

SpecStall ==
    /\ StallInit
    /\ [][StallNext]_vars
    /\ WF_vars(Sync)

(***************************************************************************)
(* The calls on a pool.                                                    *)
(***************************************************************************)
\* Where a call of a class starts.  Put(nullptr) returns at once.
PoolEntry(cls, op, obj) ==
    IF op = "Size" THEN "Size"
    ELSE IF op = "Put" /\ obj = nullptr THEN "done"
    ELSE IF op = "Exit"
    THEN (IF cls \in {"ObjectPoolTLS", "ObjectPoolTLSv2"} THEN "LocalCacheDtor" ELSE "done")
    ELSE IF cls = "ObjectPool"
    THEN (IF op = "Get" THEN "GetShared" ELSE IF op = "Put" THEN "PutShared"
          ELSE "ClearShared")
    ELSE IF op = "Dtor"
    THEN (IF cls = "ObjectPoolMap" THEN "MapClear" ELSE "CloseAndClear")
    ELSE IF op = "Clear" /\ cls = "ObjectPoolMap" THEN "MapClear"
    ELSE "OpGuard"

\* A thread calls Get, Put of an object it owns (nullptr if it owns none),
\* Clear or Size, ends (Exit: its thread_locals are destroyed), or destroys
\* the pool (Dtor).  No call is made on a pool that is destroyed, and none
\* begins during the destructor of a pool that has no guard which fails
\* (ObjectPool, ObjectPoolMap); an ObjectPool, which counts no calls, is
\* destroyed with no call in progress.
PoolInvoke(self) ==
    /\ pt[self].pc = "idle"
    /\ ~pt[self].exited
    /\ prog[self] # << >>
    /\ Head(prog[self]) # "sync"
    /\ opool.alive \/ Head(prog[self]) = "Exit"
    /\ opool.cls \in {"ObjectPool", "ObjectPoolMap"} /\ Head(prog[self]) # "Exit" =>
          \A u \in Threads : pt[u].op # "Dtor"
    /\ opool.cls = "ObjectPool" /\ Head(prog[self]) = "Dtor" =>
          \A u \in Threads \ {self} : PoolWaiting(u)
    /\ LET op == Head(prog[self])
           args == IF op = "Put" /\ pt[self].held # {} THEN pt[self].held ELSE {nullptr}
       IN  \E obj \in args :
              pt' = [pt EXCEPT ![self] =
                       [PoolThread(pt[self].held \ {obj}, FALSE) EXCEPT
                           !.pc = PoolEntry(opool.cls, op, obj),
                           !.cont = IF op = "Dtor" /\ opool.cls = "ObjectPool"
                                    THEN "Destroyed" ELSE "done",
                           !.op = op,
                           !.obj = obj,
                           !.items = IF op = "Put" /\ obj # nullptr THEN <<obj>> ELSE << >>,
                           !.calls = pt[self].calls,
                           !.quiet = \A u \in Threads \ {self} : PoolWaiting(u),
                           !.closing = opool.closing_,
                           !.stored = IF \A u \in Threads \ {self} : PoolWaiting(u)
                                      THEN opool.shards_ ELSE << >>]]
    /\ prog' = [prog EXCEPT ![self] = Tail(@)]
    /\ UNCHANGED <<opool, kind, ring, lq, th, hist, extVars>>

\* The call returns: the object of a Get is the caller's.
PoolRespond(self) ==
    /\ pt[self].pc = "done"
    /\ LET r == pt[self]
           got == IF r.op = "Get" /\ r.ret # nullptr THEN {r.ret} ELSE {}
           call == [op |-> r.op, obj |-> r.obj, ret |-> r.ret, made |-> r.made,
                    quiet |-> r.quiet, closing |-> r.closing, locked |-> r.locked,
                    stored |-> r.stored, dead |-> r.dead]
       IN  pt' = [pt EXCEPT ![self] =
                     [r EXCEPT !.pc = "idle", !.held = @ \cup got,
                               !.exited = (r.op = "Exit"),
                               !.calls = Append(@, call)]]
    /\ UNCHANGED <<opool, queueVars, extVars>>

\* The mark of a join in the calls a thread has made.
Joined ==
    [op |-> "sync", obj |-> nullptr, ret |-> nullptr, made |-> 0, quiet |-> TRUE,
     closing |-> FALSE, locked |-> {}, stored |-> << >>, dead |-> FALSE]

\* The join of a test's phase.
PoolSync ==
    /\ opool.cls # "none"
    /\ \A t \in Threads : PoolWaiting(t)
    /\ \E t \in Threads : prog[t] # << >>
    /\ prog' = [t \in Threads |-> IF prog[t] # << >> THEN Tail(prog[t]) ELSE << >>]
    /\ pt' = [t \in Threads |-> [pt[t] EXCEPT !.calls = Append(@, Joined)]]
    /\ UNCHANGED <<opool, kind, ring, lq, th, hist, extVars>>

\* The sum of the values of a function.
Total(f) ==
    LET RECURSIVE Sum(_)
        Sum(D) == IF D = {} THEN 0
                  ELSE LET x == CHOOSE x \in D : TRUE IN f[x] + Sum(D \ {x})
    IN  Sum(DOMAIN f)

\* Size(): the objects of the shards and of the caches of the pool (the
\* registered caches owned by the pool; the entries of caches_).
PoolSize(p) ==
    LET counted == IF p.cls = "ObjectPoolMap" THEN p.caches_
                   ELSE IF p.cls = "ObjectPool" THEN {}
                   ELSE {t \in p.registry_ : p.cache[t].owner = this}
    IN  Total([s \in Shards |-> Len(p.shards_[s])])
        + Total([t \in Threads |->
                    IF t \in counted THEN Cardinality(Cached(p.cache[t])) ELSE 0])

Size(self) ==
    /\ pt[self].pc = "Size"
    /\ opool.alive
    /\ \A s \in Shards : opool.mutex[s] = 0
    /\ opool.registry_mutex_ = 0
    /\ pt' = [pt EXCEPT ![self] = PoolRet(@, PoolSize(opool))]
    /\ UNCHANGED <<opool, queueVars, extVars>>

\* The steps that read or write the members of the pool.
PoolAccess ==
    { "GetShared", "TryStealFromShard", "PutShared", "ClearShared", "OpGuard",
      "OpGuardEnter", "OpGuardRecheck", "OpGuardUndo", "OpGuardLeave", "Register",
      "ClearTlsSlotsLocked", "WaitForActiveOpsAtMost", "OnThreadExit",
      "ExitClosing", "Unregister", "ExitLeave", "MapGet", "MapPut", "MapRegister",
      "MapClear", "GetSharedBatch", "TryStealBatch", "Size" }

\* A step on the members of a pool that is destroyed: undefined behaviour.
\* The thread stops (it faults, or waits for ever on what was a mutex), or
\* its Get returns what the freed memory of a shard or slot holds, which may
\* be the address of any object the pool has made.
UseAfterDestroy(self) ==
    /\ opool.cls # "none"
    /\ ~opool.alive
    /\ pt[self].pc \in PoolAccess
    /\ opool' = [opool EXCEPT !.dead_use = @ \cup {self}]
    /\ \/ pt' = [pt EXCEPT ![self].pc = "ub", ![self].dead = TRUE]
       \/ /\ pt[self].op = "Get"
          /\ \E o \in 1..opool.made :
                pt' = [pt EXCEPT ![self].pc = "done", ![self].ret = o,
                                 ![self].dead = TRUE]
    /\ UNCHANGED <<queueVars, extVars>>

(***************************************************************************)
(* The scenarios of the pools, after the tests of src/tests/unit.          *)
(***************************************************************************)
\* SingleThread_GetPut: Get, Put, Get, Put, Size, Clear; and the same calls
\* on a pool that holds objects in every layer.
RoundTripProgs ==
    { Progs(<<"Get", "Put", "Get", "Put", "Size", "Clear", "Size", "Dtor">>,
            << >>, << >>),
      Progs(<<"Get", "Get", "Get", "Put", "Put", "Put", "Get", "Put", "Get", "Get", "Exit">>,
            << >>, << >>) }

\* WorkStealing: thread 2 leaves objects in its shard, thread 1 gets with
\* its own shard empty; then thread 1 gets while thread 2 gets and puts.
StealProgs ==
    { Progs(S \o <<"Get">> \o S \o <<"Get">>,
            <<"Get", "Get", "Put", "Put">> \o S \o S \o <<"Get", "Put">>,
            << >>) }

\* ConcurrentClear: threads that get and put and then end, beside a thread
\* that clears; after the joins a last Clear and Size.
ClearProgs ==
    { Progs(<<"Get", "Put", "Get", "Put", "Exit">> \o S,
            S,
            <<"Clear">> \o S \o <<"Clear", "Size">>),
      Progs(<<"Get", "Put">> \o S \o <<"Exit">> \o S,
            <<"Get", "Put">> \o S \o <<"Exit">> \o S,
            <<"Clear">> \o S \o S \o <<"Clear", "Size">>) }

\* ThreadExitFlushesToSharedAndUnregisters, and a thread that ends while
\* or after the pool is destroyed.
ExitProgs ==
    { Progs(<<"Get", "Put", "Exit">> \o S, << >>, S \o <<"Size", "Clear", "Size">>),
      Progs(<<"Get", "Put">> \o S \o <<"Exit">>, << >>, S \o <<"Dtor">>),
      Progs(<<"Get", "Put">> \o S \o S \o <<"Exit">>, << >>, S \o <<"Dtor">> \o S) }

\* Calls beside the destructor (ClosingBlocksOpsAndDeletesOnPut sets
\* closing_ by hand).
ClosingProgs ==
    { Progs(<<"Get">> \o S \o <<"Put", "Get">>, << >>, S \o <<"Dtor">>),
      Progs(<<"Get", "Put">> \o S, S \o <<"Clear">>, S \o <<"Dtor">>) }

PoolProgs == RoundTripProgs \cup StealProgs \cup ClearProgs \cup ExitProgs \cup ClosingProgs

\* The caches of the threads are new, or (in the scenarios of one thread)
\* that of thread 1 is owned by another pool of the same element type.  The
\* effective batch size of ObjectPoolTLSv2 is BatchSize, or (in the
\* scenarios of one thread) any size the adaptation can reach.
PoolInit ==
    /\ kind \in PoolClasses
    /\ prog \in PoolProgs
    /\ \E o1 \in {nullptr, other_pool}, size \in kMinBatchSize..kMaxBatchSize :
          /\ (kind \in {"ObjectPool", "ObjectPoolMap"} \/ prog \notin RoundTripProgs)
                => o1 = nullptr
          /\ (kind # "ObjectPoolTLSv2" \/ prog \notin RoundTripProgs) => size = BatchSize
          /\ opool = ObjectPoolNew(kind, [t \in Threads |-> IF t = 1 THEN o1 ELSE nullptr],
                                   size)
    /\ pt = [t \in Threads |-> PoolThread({}, FALSE)]
    /\ slot = SlotNone
    /\ ct = [t \in Threads |-> << >>]
    /\ ebr = EbrNone
    /\ et = [t \in Threads |-> << >>]
    /\ ring = << >>
    /\ lq = LscqNone
    /\ th = [t \in Threads |-> Idle]
    /\ hist = HistInit

PoolStep(self) ==
    \/ PoolInvoke(self)
    \/ PoolRespond(self)
    \/ Size(self)
    \/ UseAfterDestroy(self)
    \/ CoreStep(self)
    \/ TlsStep(self)
    \/ MapStep(self)
    \/ Tlsv2Step(self)

PoolNext ==
    \/ PoolSync
    \/ PoolClosingVisible
    \/ \E self \in Threads : PoolStep(self)

SpecPool == PoolInit /\ [][PoolNext]_vars

(***************************************************************************)
(* cas2 on one Entry (cas2.hpp), on the native path and on the path of the *)
(* striped mutex, beside the single-word operations the dequeues apply to  *)
(* the Entry's second word: atomic_or_u64 (scq.cpp:187) and                *)
(* atomic_exchange_u64 (scqp.cpp:476).                                     *)
(***************************************************************************)
MaxCasOps == 2

\* bottom_ of a ring of four slots: every index bit.
CasBottom == 3

RECURSIVE BitOr(_, _)
BitOr(a, b) ==
    IF a = 0 THEN b
    ELSE IF b = 0 THEN a
    ELSE (IF (a % 2) + (b % 2) > 0 THEN 1 ELSE 0) + (2 * BitOr(a \div 2, b \div 2))

\* The Entries the calls write: a cycle with its flag, an index or bottom_.
EntryVals == {Entry(c, i) : c \in 0..1, i \in {1, CasBottom}}

\* The threads that call cas2; the others apply the single-word operations
\* of a dequeue.
Cas2Callers == {t \in Threads : t <= 2}

CasIdle(ops) ==
    [pc |-> "idle", op |-> "none", expected |-> Entry(0, 0), desired |-> Entry(0, 0),
     ret |-> FALSE, ops |-> ops]

\* cas2(ptr, expected, desired) with ptr # nullptr: has_cas2_support() picks
\* cas2_native or cas2_mutex.  The call is entry_load's, with expected and
\* desired Entry{0, 0}, or has the Entry its caller has read as expected.
Cas2Call(self) ==
    /\ self \in Cas2Callers
    /\ ct[self].pc = "idle" /\ ct[self].ops < MaxCasOps
    /\ \E e \in {Entry(0, 0), slot.entry} :
       \E d \in IF e = slot.entry THEN EntryVals \ {e} ELSE {e} :
          ct' = [ct EXCEPT ![self] =
                   [pc |-> IF slot.path = "native" THEN "cas2_native" ELSE "cas2_lock",
                    op |-> "cas2", expected |-> e, desired |-> d, ret |-> FALSE,
                    ops |-> @.ops + 1]]
    /\ UNCHANGED <<queueVars, poolVars, slot, ebr, et>>

\* cas2_native: one instruction compares and writes the two words.
cas2_native(self) ==
    /\ ct[self].pc = "cas2_native"
    /\ IF slot.entry = ct[self].expected
       THEN /\ slot' = [slot EXCEPT !.entry = ct[self].desired]
            /\ ct' = [ct EXCEPT ![self].pc = "done", ![self].ret = TRUE]
       ELSE /\ ct' = [ct EXCEPT ![self].pc = "done", ![self].ret = FALSE,
                                ![self].expected = slot.entry]
            /\ UNCHANGED slot
    /\ UNCHANGED <<queueVars, poolVars, ebr, et>>

\* cas2_mutex: std::lock_guard on the stripe's mutex.
Cas2MutexLock(self) ==
    /\ ct[self].pc = "cas2_lock"
    /\ slot.mutex = 0
    /\ slot' = [slot EXCEPT !.mutex = self]
    /\ ct' = [ct EXCEPT ![self].pc = "cas2_read"]
    /\ UNCHANGED <<queueVars, poolVars, ebr, et>>

\* current = *ptr; if (current != expected) { expected = current; return false; }
Cas2MutexRead(self) ==
    /\ ct[self].pc = "cas2_read"
    /\ IF slot.entry # ct[self].expected
       THEN /\ slot' = [slot EXCEPT !.mutex = 0]
            /\ ct' = [ct EXCEPT ![self].pc = "done", ![self].ret = FALSE,
                                ![self].expected = slot.entry]
       ELSE /\ ct' = [ct EXCEPT ![self].pc = "cas2_write"]
            /\ UNCHANGED slot
    /\ UNCHANGED <<queueVars, poolVars, ebr, et>>

\* *ptr = desired; return true;
Cas2MutexWrite(self) ==
    /\ ct[self].pc = "cas2_write"
    /\ slot' = [slot EXCEPT !.entry = ct[self].desired, !.mutex = 0]
    /\ ct' = [ct EXCEPT ![self].pc = "done", ![self].ret = TRUE]
    /\ UNCHANGED <<queueVars, poolVars, ebr, et>>

\* detail::atomic_or_u64(&entries_[j].index_or_ptr, bottom_)
atomic_or_u64(self) ==
    /\ self \notin Cas2Callers
    /\ ct[self].pc = "idle" /\ ct[self].ops < MaxCasOps
    /\ slot' = [slot EXCEPT !.entry.index_or_ptr = BitOr(@, CasBottom)]
    /\ ct' = [ct EXCEPT ![self] = [CasIdle(@.ops + 1) EXCEPT !.pc = "done", !.op = "or"]]
    /\ UNCHANGED <<queueVars, poolVars, ebr, et>>

\* detail::atomic_exchange_u64(&entries_i_[j].index_or_ptr, kEmptyIndex)
atomic_exchange_u64(self) ==
    /\ self \notin Cas2Callers
    /\ ct[self].pc = "idle" /\ ct[self].ops < MaxCasOps
    /\ slot' = [slot EXCEPT !.entry.index_or_ptr = CasBottom]
    /\ ct' = [ct EXCEPT ![self] = [CasIdle(@.ops + 1) EXCEPT !.pc = "done", !.op = "xchg"]]
    /\ UNCHANGED <<queueVars, poolVars, ebr, et>>

\* The call returns to its caller.
CasReturn(self) ==
    /\ ct[self].pc = "done"
    /\ ct' = [ct EXCEPT ![self] = CasIdle(@.ops)]
    /\ UNCHANGED <<queueVars, poolVars, slot, ebr, et>>

\* An Entry, on a build with the native instruction or without it, and the
\* threads that work on it.
Cas2Init ==
    /\ kind = "cas2"
    /\ \E path \in {"native", "mutex"}, e \in {Entry(0, 0), Entry(1, 1)} :
          slot = [path |-> path, entry |-> e, mutex |-> 0]
    /\ ct = [t \in Threads |-> CasIdle(0)]
    /\ ebr = EbrNone
    /\ et = [t \in Threads |-> << >>]
    /\ opool = PoolNone
    /\ pt = [t \in Threads |-> PoolThread({}, FALSE)]
    /\ prog = [t \in Threads |-> << >>]
    /\ ring = << >>
    /\ lq = LscqNone
    /\ th = [t \in Threads |-> Idle]
    /\ hist = HistInit

Cas2Step(self) ==
    \/ Cas2Call(self)
    \/ cas2_native(self)
    \/ Cas2MutexLock(self)
    \/ Cas2MutexRead(self)
    \/ Cas2MutexWrite(self)
    \/ atomic_or_u64(self)
    \/ atomic_exchange_u64(self)
    \/ CasReturn(self)

Cas2Next == \E self \in Threads : Cas2Step(self)

SpecCas2 == Cas2Init /\ [][Cas2Next]_vars

(***************************************************************************)
(* The EBRManager (ebr.hpp, ebr.cpp): threads enter and leave critical     *)
(* sections, retire nodes and call try_reclaim.                            *)
(***************************************************************************)
MaxEbrOps == 2
MaxRetired == 1

kNumGenerations == 3

\* The objects a test retires.
EbrNodes == 1..MaxRetired

\* EBRManager::EBRManager().  states[t] is thread t's ThreadState once
\* get_or_create_state has registered it; guard[p] is the set of threads that
\* were inside a critical section when p's retire was called and have not
\* left it since (observation only).
EbrNew ==
    [cls |-> "ebr",
     global_epoch_ |-> 0,
     retired_ |-> [g \in 0..(kNumGenerations - 1) |-> {}],
     thread_states_ |-> {},
     states |-> [t \in Threads |-> [epoch |-> 0, active |-> FALSE]],
     freed |-> {},
     made |-> 0,
     guard |-> [p \in EbrNodes |-> {}]]

EbrIdle(in_cs, ops) ==
    [pc |-> "idle", op |-> "none", in_cs |-> in_cs, ops |-> ops,
     ptr |-> 0, epoch |-> 0, can |-> FALSE]

\* A test thread calls enter_critical, exit_critical, retire or try_reclaim.
EbrCall(self) ==
    /\ et[self].pc = "idle" /\ et[self].ops < MaxEbrOps
    /\ \E op \in {"enter", "exit", "retire", "reclaim"} :
          /\ op = "enter" => ~et[self].in_cs
          /\ op = "exit" => et[self].in_cs
          /\ op = "retire" => ebr.made < MaxRetired
          /\ et' = [et EXCEPT ![self] =
                      [@ EXCEPT !.pc = op, !.op = op, !.ops = @ + 1,
                                !.in_cs = IF op = "exit" THEN FALSE ELSE @,
                                !.ptr = IF op = "retire" THEN ebr.made + 1 ELSE 0]]
          /\ ebr' = IF op = "retire"
                    THEN [ebr EXCEPT !.made = @ + 1,
                                     !.guard[ebr.made + 1] =
                                        {u \in Threads : et[u].in_cs}]
                    ELSE IF op = "exit"
                    THEN [ebr EXCEPT !.guard =
                            [p \in EbrNodes |-> IF p \in ebr.freed THEN @[p]
                                                ELSE @[p] \ {self}]]
                    ELSE ebr
    /\ UNCHANGED <<queueVars, poolVars, slot, ct>>

\* enter_critical: get_or_create_state(); state->epoch = global_epoch_.load()
EnterLoadEpoch(self) ==
    /\ et[self].pc = "enter"
    /\ ebr' = [ebr EXCEPT !.thread_states_ = @ \cup {self},
                          !.states[self].epoch = ebr.global_epoch_]
    /\ et' = [et EXCEPT ![self].pc = "enter_active"]
    /\ UNCHANGED <<queueVars, poolVars, slot, ct>>

\* state->active = true
EnterActive(self) ==
    /\ et[self].pc = "enter_active"
    /\ ebr' = [ebr EXCEPT !.states[self].active = TRUE]
    /\ et' = [et EXCEPT ![self].pc = "done", ![self].in_cs = TRUE]
    /\ UNCHANGED <<queueVars, poolVars, slot, ct>>

\* exit_critical: get_or_create_state(); state->active = false
exit_critical(self) ==
    /\ et[self].pc = "exit"
    /\ ebr' = [ebr EXCEPT !.thread_states_ = @ \cup {self},
                          !.states[self].active = FALSE]
    /\ et' = [et EXCEPT ![self].pc = "done"]
    /\ UNCHANGED <<queueVars, poolVars, slot, ct>>

\* retire: epoch = global_epoch_.load()
RetireLoadEpoch(self) ==
    /\ et[self].pc = "retire"
    /\ et' = [et EXCEPT ![self].pc = "retire_push", ![self].epoch = ebr.global_epoch_]
    /\ UNCHANGED <<queueVars, poolVars, slot, ct, ebr>>

\* retired_[gen_idx].push_back(node) under retired_mutex_
RetirePush(self) ==
    /\ et[self].pc = "retire_push"
    /\ ebr' = [ebr EXCEPT !.retired_[et[self].epoch % kNumGenerations] =
                          @ \cup {[ptr |-> et[self].ptr, epoch |-> et[self].epoch]}]
    /\ et' = [et EXCEPT ![self].pc = "done"]
    /\ UNCHANGED <<queueVars, poolVars, slot, ct>>

\* can_advance_epoch(), under threads_mutex_.
can_advance_epoch(e) ==
    \A t \in e.thread_states_ :
        ~(e.states[t].active /\ e.states[t].epoch < e.global_epoch_)

\* try_reclaim: if (can_advance_epoch())
ReclaimCheck(self) ==
    /\ et[self].pc = "reclaim"
    /\ et' = [et EXCEPT ![self].pc = "reclaim_advance",
                        ![self].can = can_advance_epoch(ebr)]
    /\ UNCHANGED <<queueVars, poolVars, slot, ct, ebr>>

\* global_epoch_.fetch_add(1)
ReclaimAdvance(self) ==
    /\ et[self].pc = "reclaim_advance"
    /\ ebr' = [ebr EXCEPT !.global_epoch_ = IF et[self].can THEN @ + 1 ELSE @]
    /\ et' = [et EXCEPT ![self].pc = "reclaim_load"]
    /\ UNCHANGED <<queueVars, poolVars, slot, ct>>

\* current_epoch = global_epoch_.load()
ReclaimLoadEpoch(self) ==
    /\ et[self].pc = "reclaim_load"
    /\ et' = [et EXCEPT ![self].pc = "reclaim_free", ![self].epoch = ebr.global_epoch_]
    /\ UNCHANGED <<queueVars, poolVars, slot, ct, ebr>>

\* if (current_epoch >= 2): the nodes with node.epoch <= safe_epoch leave
\* the lists and their deleters run.
ReclaimFree(self) ==
    /\ et[self].pc = "reclaim_free"
    /\ LET current_epoch == et[self].epoch
           to_delete(g) ==
               IF current_epoch >= 2
               THEN {n \in ebr.retired_[g] : n.epoch <= current_epoch - 2}
               ELSE {}
       IN  ebr' = [ebr EXCEPT
                     !.retired_ = [g \in DOMAIN @ |-> @[g] \ to_delete(g)],
                     !.freed = @ \cup {n.ptr : n \in UNION {to_delete(g) :
                                                 g \in DOMAIN ebr.retired_}}]
    /\ et' = [et EXCEPT ![self].pc = "done"]
    /\ UNCHANGED <<queueVars, poolVars, slot, ct>>

\* The call returns to the test thread.
EbrReturn(self) ==
    /\ et[self].pc = "done"
    /\ et' = [et EXCEPT ![self] = EbrIdle(@.in_cs, @.ops)]
    /\ UNCHANGED <<queueVars, poolVars, slot, ct, ebr>>

EbrInit ==
    /\ kind = "ebr"
    /\ ebr = EbrNew
    /\ et = [t \in Threads |-> EbrIdle(FALSE, 0)]
    /\ slot = SlotNone
    /\ ct = [t \in Threads |-> << >>]
    /\ opool = PoolNone
    /\ pt = [t \in Threads |-> PoolThread({}, FALSE)]
    /\ prog = [t \in Threads |-> << >>]
    /\ ring = << >>
    /\ lq = LscqNone
    /\ th = [t \in Threads |-> Idle]
    /\ hist = HistInit

EbrStep(self) ==
    \/ EbrCall(self)
    \/ EnterLoadEpoch(self)
    \/ EnterActive(self)
    \/ exit_critical(self)
    \/ RetireLoadEpoch(self)
    \/ RetirePush(self)
    \/ ReclaimCheck(self)
    \/ ReclaimAdvance(self)
    \/ ReclaimLoadEpoch(self)
    \/ ReclaimFree(self)
    \/ EbrReturn(self)

EbrNext == \E self \in Threads : EbrStep(self)

SpecEbr == EbrInit /\ [][EbrNext]_vars

(***************************************************************************)
(* What the calls are observed to do.                                      *)
(***************************************************************************)
\* Thread t's dequeue is about to return a value, or the empty value.
Returned(t) == th[t].pc = "done" /\ th[t].op = "deq" /\ th[t].ret # EmptyRet
ReturnedEmpty(t) == th[t].pc = "done" /\ th[t].op = "deq" /\ th[t].ret = EmptyRet

\* The arguments of the enqueues that have not returned yet.
InFlightArgs ==
    {th[t].arg : t \in {u \in Threads : th[u].op = "enq" /\ th[u].pc # "idle"}}

\* The values thread c has dequeued, the one it is about to return included.
GotNow(c) == IF Returned(c) THEN Append(hist.got[c], th[c].ret) ELSE hist.got[c]
Taken == UNION {Range(GotNow(c)) : c \in Threads}

Pos(s, v) == CHOOSE i \in 1..Len(s) : s[i] = v

\* The destructor has been called.
Destroying ==
    lq.closing_ \/ lq.closing_buf \/ \E t \in Threads : th[t].op = "dtor"

\* The values enqueued so far differ from each other (the values of an SCQ
\* are the numbers below bottom_).
Distinct == kind # "scq" \/ hist.nenq <= ring[1].bottom_

\* A returned pointer was enqueued and is returned once; and a dequeue made
\* while no other call runs returns empty only if every pointer whose
\* enqueue returned true has been returned.
NoLossNoDup ==
    \A t \in Threads :
        /\ Returned(t) =>
              /\ th[t].ret \in (Sent \cup InFlightArgs)
              /\ th[t].ret \notin Got
              /\ \A u \in Threads \ {t} : Returned(u) => th[u].ret # th[t].ret
        /\ (ReturnedEmpty(t) /\ th[t].quiet) => Present = 0

\* A dequeue during which the queue held a value at every instant (it held
\* one at the invocation and no other dequeue ran meanwhile) does not
\* return empty.
NotEmptyWhileHeld ==
    \A t \in Threads :
        (th[t].pc = "done" /\ th[t].op = "deq" /\ th[t].held) => th[t].ret # EmptyRet

\* A consumer that has dequeued two values of one producer has received
\* them in the order of their enqueues.
ConsumerOrder ==
    \A p \in Threads, c \in Threads :
        \A i \in 1..Len(hist.sent[p]), j \in 1..Len(hist.sent[p]) :
            (i < j /\ hist.sent[p][i] \in Range(GotNow(c))
                   /\ hist.sent[p][j] \in Range(GotNow(c)))
                => Pos(GotNow(c), hist.sent[p][i]) < Pos(GotNow(c), hist.sent[p][j])

\* While no dequeue is running, a dequeued value of a producer has all the
\* producer's earlier values dequeued before it.
DequeuedInOrder ==
    (\A u \in Threads : th[u].op = "deq" => th[u].pc \in {"idle", "done"}) =>
        \A p \in Threads :
            \A i \in 1..Len(hist.sent[p]), j \in 1..Len(hist.sent[p]) :
                (i < j /\ hist.sent[p][j] \in Taken) => hist.sent[p][i] \in Taken

(***************************************************************************)
(* C1.  LSCQ, any interleaving of enqueues and dequeues, node changes      *)
(* included: every pointer whose enqueue returned true is returned by      *)
(* exactly one dequeue, given the consumers dequeue until the queue is     *)
(* empty, and no dequeue returns a pointer that was not enqueued or was    *)
(* returned before.                                                        *)
(***************************************************************************)
LscqNoLossNoDup == (kind = "lscq" /\ ~Destroying) => NoLossNoDup

(***************************************************************************)
(* C2.  One SCQP ring, pointer mode and fallback mode: every pointer whose *)
(* enqueue returned true is returned by exactly one dequeue, given the     *)
(* consumers dequeue until the ring is empty, and no dequeue returns a     *)
(* pointer that was not enqueued or was returned before.                   *)
(***************************************************************************)
ScqpNoLossNoDup == kind = "scqp" => NoLossNoDup

(***************************************************************************)
(* C3.  LSCQ: if one producer enqueues v1 and later v2, then v2 is         *)
(* dequeued no earlier than v1, and a consumer that dequeues both receives *)
(* v1 before v2.                                                           *)
(***************************************************************************)
LscqProducerFifo ==
    (kind = "lscq" /\ ~Destroying) => (DequeuedInOrder /\ ConsumerOrder)

(***************************************************************************)
(* C4.  One SCQ or SCQP ring: if one producer enqueues v1 and later v2, a  *)
(* consumer that dequeues both receives v1 before v2.                      *)
(***************************************************************************)
RingConsumerOrder ==
    (kind \in {"scq", "scqp"} /\ Distinct) => ConsumerOrder

\* A consumer has received the first two values of another thread.
RingConsumerOrderWitness ==
    /\ kind \in {"scq", "scqp"}
    /\ Distinct
    /\ \E p \in Threads, c \in Threads :
          /\ p # c
          /\ Len(hist.sent[p]) >= 2
          /\ Len(hist.got[c]) >= 2
          /\ hist.got[c][1] = hist.sent[p][1]
          /\ hist.got[c][2] = hist.sent[p][2]

(***************************************************************************)
(* C5.  One SCQ or SCQP ring: the histories are linearizable as a FIFO     *)
(* queue; in particular a dequeue returns the empty value only if the ring *)
(* held no value at some instant between its invocation and its return.    *)
(***************************************************************************)
RingEmptyOnlyIfEmpty == kind \in {"scq", "scqp"} => NotEmptyWhileHeld

(***************************************************************************)
(* C6.  LSCQ: a dequeue during which the queue holds a pointer at every    *)
(* instant does not return null.                                           *)
(***************************************************************************)
LscqNullOnlyIfEmpty == (kind = "lscq" /\ ~Destroying) => NotEmptyWhileHeld

(***************************************************************************)
(* C7.  LSCQ destruction: while an enqueue or dequeue that passed its      *)
(* re-check of closing_ is running, the destructor has returned no node to *)
(* the pool and has not cleared the pool.                                  *)
(***************************************************************************)
\* Thread t is in a call, past the re-check and before the guard's end.
PastRecheck(t) ==
    th[t].guarded /\ th[t].pc \notin {"lscq_recheck", "lscq_leave", "done"}

DtorQuiesces ==
    (\E t \in Threads : PastRecheck(t)) =>
        /\ ~lq.cleared
        /\ \A d \in Threads : th[d].op = "dtor" => th[d].retry = 0

(***************************************************************************)
(* C8.  LSCQ used by one thread, over node boundaries: every enqueue of a  *)
(* non-null pointer returns true, the dequeues return the pointers in the  *)
(* order of their enqueues, and a dequeue after the last one returns null. *)
(***************************************************************************)
\* Only thread 1 makes calls.
SingleThreaded ==
    \A t \in Threads \ {1} :
        prog[t] = << >> /\ th[t].pc = "idle" /\ hist.last[t].op = "none"

LscqSequentialFifo ==
    (kind = "lscq" /\ SingleThreaded /\ th[1].pc = "done") =>
        /\ th[1].op = "deq" =>
              LET k == Len(hist.got[1]) + 1
              IN  th[1].ret = IF k <= Len(hist.sent[1]) THEN hist.sent[1][k] ELSE nullptr
        /\ (th[1].op = "enq" /\ th[1].arg # nullptr) => th[1].ret = TRUE

\* The dequeue after the last pointer, after more pointers than two nodes
\* hold went through the queue and the first node was used again.
LscqSequentialFifoWitness ==
    /\ kind = "lscq"
    /\ SingleThreaded
    /\ ReturnedEmpty(1)
    /\ Len(hist.got[1]) = Len(hist.sent[1])
    /\ Len(hist.sent[1]) > 2 * ring[1].scqsize_
    /\ lq.head_ = 1
    /\ lq.made = MaxNodes

(***************************************************************************)
(* C9.  SCQ, SCQP and LSCQ: in a state where no call runs and the queue is *)
(* empty, enqueue(x) followed by dequeue() returns x.                      *)
(***************************************************************************)
\* Thread t's dequeue is about to return; its call before was an enqueue
\* that returned true on an empty queue, and no other thread made a call
\* during the two.
AfterRoundTrip(t) ==
    /\ th[t].pc = "done" /\ th[t].op = "deq" /\ th[t].quiet
    /\ hist.last[t].op = "enq" /\ hist.last[t].ret = TRUE
    /\ hist.last[t].quiet /\ hist.last[t].present = 0

Stored(r) ==
    Cardinality({j \in DOMAIN r.entries : r.entries[j].index_or_ptr # r.bottom_})

ValidArg(t) == th[t].arg # kEmpty /\ th[t].arg < ring[1].bottom_

\* Enqueues that have written their value, dequeues that have taken one,
\* and have not returned yet.
EnqPast ==
    Cardinality({t \in Threads :
        th[t].op = "enq" /\ (th[t].pc = "scq_e_thr" \/ (th[t].pc = "done" /\ th[t].ret = TRUE))})
DeqPast == Cardinality({t \in Threads : Returned(t)})

\* Every value written is in a slot of its own until a dequeue takes it:
\* the enqueues on a full ring wait for a dequeue.
SlotPerValue ==
    Stored(ring[1]) = (SeqSum(hist.sent) + EnqPast) - (SeqSum(hist.got) + DeqPast)

NeverFalse ==
    \A t \in Threads :
        (th[t].op = "enq" /\ th[t].pc = "done" /\ ValidArg(t)) => th[t].ret = TRUE

\* Thread t's enqueue is in its loop.
Spinning(t) ==
    th[t].op = "enq" /\ th[t].pc \in {"scq_e_faa", "scq_e_load", "scq_e_head", "scq_e_cas"}

\* A slot is free, the other threads have finished their calls, and the
\* tickets of one more round of the ring are left.
Room(t) ==
    /\ Stored(ring[1]) < ring[1].scqsize_
    /\ \A u \in Threads \ {t} : Waiting(u)
    /\ ring[1].tail_ + ring[1].scqsize_ < MaxTicket
    /\ ring[1].head_ + ring[1].scqsize_ < MaxTicket

NcqEnqPast ==
    Cardinality({t \in Threads :
        th[t].op = "enq" /\ (th[t].pc = "ncq_e_adv" \/ (th[t].pc = "done" /\ th[t].ret = TRUE))})

\* Values stored by an enqueue and not yet taken by a dequeue.
NcqHeld == (SeqSum(hist.sent) + NcqEnqPast) - (SeqSum(hist.got) + DeqPast)

NcqEnqueueSpins == kind = "ncq" => NcqHeld <= ring[1].capacity_

(***************************************************************************)
(* C12.  SCQP: an enqueue on a full ring returns false after a bounded     *)
(* number of steps (it takes no ticket and does not wait for a dequeue),   *)
(* and the rejected pointer is not stored: it is in no slot and no dequeue *)
(* returns it.                                                             *)
(***************************************************************************)
\* Thread t's enqueue of a non-null pointer runs alone on a ring that holds
\* scqsize_ pointers.
EnqOnFull(t) ==
    /\ th[t].op = "enq" /\ th[t].pc # "idle" /\ th[t].arg # nullptr
    /\ th[t].quiet
    /\ Present >= ring[1].scqsize_

\* The pointers whose enqueue has returned false.
Rejected ==
    {v \in 1..hist.nenq :
        /\ v \notin Sent
        /\ \A t \in Threads :
              (th[t].op = "enq" /\ th[t].pc # "idle" /\ th[t].arg = v)
                  => (th[t].pc = "done" /\ th[t].ret = FALSE)}

\* The pointers in the slots of the ring (in the side array in fallback mode).
InSlots(r) ==
    IF r.using_fallback_
    THEN {r.ptr_array_[j] : j \in DOMAIN r.ptr_array_} \ {nullptr}
    ELSE {r.entries[j].index_or_ptr : j \in DOMAIN r.entries} \ {nullptr}

ScqpFullRejects ==
    kind = "scqp" =>
        /\ \A t \in Threads :
              EnqOnFull(t) =>
                  /\ th[t].pc \in {"scqp_enq", "scqp_e_deqs", "scqp_e_enqs", "done"}
                  /\ th[t].pc = "done" => th[t].ret = FALSE
        /\ Rejected \cap (Taken \cup InSlots(ring[1])) = {}

\* In fallback mode: a thread filled the ring, had one more pointer
\* rejected and is about to get the last pointer of the ring back.
ScqpFullRejectsWitness ==
    /\ kind = "scqp"
    /\ ring[1].using_fallback_
    /\ SingleThreaded
    /\ Rejected # {}
    /\ Returned(1)
    /\ Len(hist.sent[1]) = ring[1].scqsize_
    /\ Len(hist.got[1]) = ring[1].scqsize_ - 1

(***************************************************************************)
(* C13.  SCQ and SCQP: a ring of scqsize_ slots never holds more than      *)
(* qsize_ = scqsize_ / 2 values that are enqueued and not yet dequeued.    *)
(***************************************************************************)
\* Enqueues that have stored their value, dequeues that have emptied their
\* slot, and have not returned yet.
RingEnqPast ==
    Cardinality({t \in Threads :
        /\ th[t].op = "enq"
        /\ \/ th[t].pc \in {"scq_e_thr", "scqp_e_thr", "scqp_e_count"}
           \/ th[t].pc = "done" /\ th[t].ret = TRUE})
RingDeqPast ==
    Cardinality({t \in Threads :
        th[t].op = "deq" /\ (th[t].pc = "scqp_d_count" \/ Returned(t))})

\* Values stored by an enqueue whose slot no dequeue has emptied yet.
RingHeld == (SeqSum(hist.sent) + RingEnqPast) - (SeqSum(hist.got) + RingDeqPast)

RingHoldsAtMostQsize ==
    kind \in {"scq", "scqp"} => RingHeld <= ring[1].qsize_

(***************************************************************************)
(* C14.  NCQ, SCQ, SCQP and LSCQ: a dequeue called on an empty queue while *)
(* no other call runs returns the empty value (kEmpty, null), and it does  *)
(* so after a bounded number of steps (while tickets are left below        *)
(* MaxTicket).                                                             *)
(***************************************************************************)
\* The rings a dequeue may take tickets of (of an LSCQ: the head node and
\* its successor) have tickets left.
TicketsLeft ==
    LET live == IF kind # "lscq" THEN {1}
                ELSE IF lq.head_ = nullptr THEN {}
                ELSE {lq.head_, lq.next[lq.head_]} \ {nullptr}
    IN  \A n \in live :
            kind # "ncq" => ring[n].head_ + (2 * ring[n].scqsize_) < MaxTicket

\* Thread t has called dequeue on an empty queue and no other call runs.
DeqOnEmpty(t) ==
    /\ th[t].op = "deq" /\ th[t].pc \notin {"idle", "done"}
    /\ th[t].quiet
    /\ Present = 0

DequeueOnEmptyReturns ==
    /\ [](\A t \in Threads :
            (th[t].op = "deq" /\ th[t].pc = "done" /\ th[t].quiet /\ Present = 0)
                => th[t].ret = EmptyRet)
    /\ \A t \in Threads :
          (DeqOnEmpty(t) /\ TicketsLeft)
              ~> (th[t].op = "deq" /\ th[t].pc = "done" /\ th[t].ret = EmptyRet)

\* An LSCQ whose head has moved to another node is empty again, and a
\* dequeue called alone is about to return null.
DequeueOnEmptyReturnsWitness ==
    /\ kind = "lscq"
    /\ lq.head_ # 1
    /\ TicketsLeft
    /\ SeqSum(hist.got) > ring[1].scqsize_
    /\ \E t \in Threads :
          /\ th[t].op = "deq" /\ th[t].pc = "done" /\ th[t].quiet
          /\ Present = 0
          /\ th[t].ret = EmptyRet


(***************************************************************************)
(* C20.  In one thread, with no other thread in a call on the pool, a Get  *)
(* that returns x, then Put(x), then a Get: the second Get returns x and   *)
(* the factory is not invoked by it.  For every class of pool.             *)
(***************************************************************************)
\* Calls i, i + 1, i + 2 of thread t are Get returning an object, Put of
\* that object and Get, all of them with every other thread between calls.
GetPutGet(t, i) ==
    LET c == pt[t].calls
    IN  /\ i + 2 <= Len(c)
        /\ c[i].op = "Get" /\ c[i].ret # nullptr /\ c[i].quiet
        /\ c[i + 1].op = "Put" /\ c[i + 1].obj = c[i].ret /\ c[i + 1].quiet
        /\ c[i + 2].op = "Get" /\ c[i + 2].quiet

GetPutGetSameObject ==
    \A t \in Threads : \A i \in 1..Len(pt[t].calls) :
        GetPutGet(t, i) =>
            /\ pt[t].calls[i + 2].ret = pt[t].calls[i].ret
            /\ pt[t].calls[i + 2].made = 0

\* The round trip on an ObjectPoolTLSv2 whose thread holds another object
\* in its cache, and on an ObjectPoolTLS whose thread's cache is another
\* pool's.
GetPutGetSameObjectWitness ==
    \E t \in Threads : \E i \in 1..Len(pt[t].calls) :
        /\ GetPutGet(t, i)
        /\ pt[t].calls[i + 2].ret = pt[t].calls[i].ret
        /\ \/ kind = "ObjectPoolTLSv2" /\ Cached(opool.cache[t]) # {}
           \/ kind = "ObjectPoolTLS" /\ opool.cache[t].owner = other_pool


(***************************************************************************)
(* C19.  ObjectPool::Get of a thread whose own shard is empty: with an     *)
(* object stored in another shard and no other thread in a call (every     *)
(* mutex free), Get returns a stored object and does not invoke the        *)
(* factory; with the mutex of every other shard owned by another thread    *)
(* at its try_to_lock, Get does not wait and returns a new object made by  *)
(* the factory.                                                            *)
(***************************************************************************)
\* The objects the other shards held when call c of thread t began.
PeerStored(t, c) ==
    UNION {Range(c.stored[s]) : s \in Shards \ {CurrentShardIndex(t)}}

\* Call c of thread t is a Get that began with the own shard empty, an
\* object in another shard and every other thread between calls.
StealCase(t, c) ==
    /\ c.op = "Get" /\ c.quiet
    /\ c.stored[CurrentShardIndex(t)] = << >>
    /\ PeerStored(t, c) # {}

\* Call c of thread t is a Get on the pool while it exists that found every
\* other shard's mutex owned.
LockedCase(t, c) ==
    c.op = "Get" /\ ~c.dead /\ c.locked = Shards \ {CurrentShardIndex(t)}

WorkStealing ==
    kind = "ObjectPool" =>
        \A t \in Threads : \A i \in 1..Len(pt[t].calls) :
            LET c == pt[t].calls[i]
            IN  /\ StealCase(t, c) => c.ret \in PeerStored(t, c) /\ c.made = 0
                /\ LockedCase(t, c) => c.made = 1 /\ c.ret # nullptr

\* Both cases have happened, and the Get of the second case has returned
\* while the mutex it found owned is still owned, with an object in that
\* shard.
WorkStealingWitness ==
    /\ kind = "ObjectPool"
    /\ \E t \in Threads : \E i, j \in 1..Len(pt[t].calls) :
          /\ StealCase(t, pt[t].calls[i])
          /\ pt[t].calls[i].ret \in PeerStored(t, pt[t].calls[i])
          /\ LockedCase(t, pt[t].calls[j])
          /\ pt[t].calls[j].made = 1
          /\ \E s \in pt[t].calls[j].locked :
                opool.mutex[s] \notin {0, t} /\ opool.shards_[s] # << >>


(***************************************************************************)
(* C17.  A Get or Put that begins while the closing flag of an             *)
(* ObjectPoolTLS or ObjectPoolTLSv2 is set, and runs before the pool has   *)
(* ceased to exist, finds its op guard failed: Get returns null, and Put   *)
(* deletes the object it was given and stores it in no fast slot, batch or *)
(* shard.                                                                  *)
(***************************************************************************)
\* Call c began with closing_ set and did what a failed guard does.
FailedGuardCall(c) ==
    /\ c.op = "Get" => c.ret = nullptr
    /\ c.op = "Put" /\ c.obj # nullptr =>
          /\ opool.destroyed[c.obj] = 1
          /\ c.obj \notin InShards(opool) \cup InCaches(opool)

ClosingCalls(t) ==
    {i \in 1..Len(pt[t].calls) :
        /\ pt[t].calls[i].closing /\ ~pt[t].calls[i].dead
        /\ pt[t].calls[i].op \in {"Get", "Put"}}

ClosingGuardFailsTls ==
    kind \in {"ObjectPoolTLS", "ObjectPoolTLSv2"} =>
        \A t \in Threads : \A i \in ClosingCalls(t) : FailedGuardCall(pt[t].calls[i])

\* A Put of an object and a Get have both been made while closing_ was set.
ClosingGuardFailsTlsWitness ==
    /\ kind \in {"ObjectPoolTLS", "ObjectPoolTLSv2"}
    /\ \E t \in Threads : \E i, j \in ClosingCalls(t) :
          /\ pt[t].calls[i].op = "Put" /\ pt[t].calls[i].obj # nullptr
          /\ opool.destroyed[pt[t].calls[i].obj] = 1
          /\ pt[t].calls[j].op = "Get" /\ pt[t].calls[j].ret = nullptr

\* The statement for every pool that has a closing flag.
ClosingGuardFails ==
    \A t \in Threads : \A i \in ClosingCalls(t) : FailedGuardCall(pt[t].calls[i])


(***************************************************************************)
(* C18.  A thread that ends has its thread-local cache drained and         *)
(* unregistered; a thread that ends while or after the pool is destroyed   *)
(* makes no access to the destroyed pool, and no object is deleted twice.  *)
(***************************************************************************)
ThreadExitSafe ==
    /\ \A t \in Threads :
          /\ t \in opool.dead_use => pt[t].op # "Exit"
          /\ pt[t].exited /\ kind \in {"ObjectPoolTLS", "ObjectPoolTLSv2"} =>
                /\ Cached(opool.cache[t]) = {} \/ opool.cache[t].owner # this
                /\ t \notin opool.registry_ \/ opool.registry_mutex_ # 0
    /\ \A o \in Objects : opool.destroyed[o] <= 1


(***************************************************************************)
(* C16.  Once the threads that called Get and Put while another thread     *)
(* called Clear have stopped, holding no object, and a last Clear has run, *)
(* Size() is zero, the factory has been called as often as the destructor  *)
(* of the managed type, and no Get of those threads returned null.         *)
(***************************************************************************)
\* Thread t has just made a Clear and then a Size with every other thread
\* stopped, no thread holds an object and the pool has not been destroyed.
AfterFinalClear(t) ==
    LET n == Len(pt[t].calls)
    IN  /\ opool.cls # "none" /\ opool.alive /\ ~opool.closing_
        /\ opool.closing_buf = << >>
        /\ pt[t].pc = "idle"
        /\ n >= 2
        /\ pt[t].calls[n - 1].op = "Clear" /\ pt[t].calls[n - 1].quiet
        /\ pt[t].calls[n].op = "Size" /\ pt[t].calls[n].quiet
        /\ \A u \in Threads : pt[u].held = {} /\ (u # t => PoolWaiting(u))

DestructorCalls == Total(opool.destroyed)

ConcurrentClear ==
    \A t \in Threads :
        AfterFinalClear(t) =>
            /\ pt[t].calls[Len(pt[t].calls)].ret = 0
            /\ opool.made = DestructorCalls
            /\ \A u \in Threads : \A i \in 1..Len(pt[u].calls) :
                  pt[u].calls[i].op = "Get" => pt[u].calls[i].ret # nullptr

\* The last Clear and Size follow a Get that ran while another thread was
\* in a call, a Clear of another phase and the end of a thread; two objects
\* at least were made.
ConcurrentClearWitness ==
    \E t \in Threads :
        /\ AfterFinalClear(t)
        /\ pt[t].calls[Len(pt[t].calls)].ret = 0
        /\ opool.made >= 2 /\ opool.made = DestructorCalls
        /\ \E i \in 1..Len(pt[t].calls) - 2 : pt[t].calls[i].op = "Clear"
        /\ \E u \in Threads \ {t} :
              /\ pt[u].exited
              /\ \E i \in 1..Len(pt[u].calls) :
                    pt[u].calls[i].op = "Get" /\ ~pt[u].calls[i].quiet


(***************************************************************************)
(* C15.  Every object a pool's factory made is destroyed at most once, is  *)
(* neither destroyed nor stored by the pool while a caller owns it         *)
(* (between the Get that returned it and the Put that gives it back), and  *)
(* has never two owners: two callers, a caller and a slot or shard of the  *)
(* pool, or two places of the pool.                                        *)
(***************************************************************************)
\* The objects thread t owns as a caller: those a Get returned to it and it
\* has not put back, the one its returning Get hands over.
CallerOwned(t) ==
    pt[t].held \cup
        (IF pt[t].pc = "done" /\ pt[t].op = "Get" /\ pt[t].ret # nullptr
         THEN {pt[t].ret} ELSE {})

\* The places of the pool that refer to object o.
PlacesOf(o) ==
    Total([s \in Shards |->
              Cardinality({i \in DOMAIN opool.shards_[s] : opool.shards_[s][i] = o})])
    + Total([t \in Threads |->
                (IF opool.cache[t].private_obj = o THEN 1 ELSE 0)
                + (IF opool.cache[t].fast_slot = o THEN 1 ELSE 0)
                + Cardinality({i \in BatchSlots : opool.cache[t].batch[i] = o})])

ObjectOwnedOnce ==
    opool.cls # "none" =>
        \A o \in Objects :
            /\ opool.destroyed[o] <= 1
            /\ PlacesOf(o) <= 1
            /\ opool.destroyed[o] = 1 => PlacesOf(o) = 0
            /\ \A t \in Threads :
                  o \in CallerOwned(t) =>
                      /\ opool.destroyed[o] = 0
                      /\ PlacesOf(o) = 0
                      /\ \A u \in Threads \ {t} : o \notin CallerOwned(u)


ResetRefuses ==
    [][\A t \in Threads :
          th[t].pc = "scqp_reset" /\ th'[t].pc # "scqp_reset" /\ Present > 0 =>
              ring' = ring /\ th'[t].pc = "done" /\ th'[t].ret = FALSE]_vars


(***************************************************************************)
(* C23.  cas2 compares and writes the whole Entry in one atomic step, on   *)
(* the native path and on the path of the striped mutex: a call that       *)
(* returns true wrote desired over an Entry that was equal to expected at  *)
(* that moment, and a call that returns false wrote nothing and handed the *)
(* Entry it saw back in expected, whatever other calls of cas2 and         *)
(* whatever atomic OR or exchange on the second word run beside it.        *)
(***************************************************************************)
Cas2Atomic ==
    [][\A t \in Threads :
          ct[t].op = "cas2" /\ ct[t].pc # "done" /\ ct'[t].pc = "done" =>
              IF ct'[t].ret
              THEN slot.entry = ct[t].expected /\ slot'.entry = ct[t].desired
              ELSE /\ slot.entry # ct[t].expected
                   /\ slot'.entry = slot.entry
                   /\ ct'[t].expected = slot.entry]_vars


(***************************************************************************)
(* C24.  An enqueue of the reserved value (nullptr on SCQP and LSCQ,       *)
(* kEmpty on NCQ and SCQ, and a value >= bottom_ on SCQ) returns false and *)
(* changes nothing of the queue: head, tail, threshold, the counters,      *)
(* every slot and the list of an LSCQ are as before the call.              *)
(***************************************************************************)
RejectedCall(t) ==
    th[t].op = "enq" /\ th[t].pc \notin {"idle", "done"} /\ th[t].arg \in BadArgs

EnqueueReservedNoChange ==
    [][\A t \in Threads :
          RejectedCall(t) /\ th'[t] # th[t] =>
              /\ th'[t].pc = "done" /\ th'[t].ret = FALSE
              /\ ring' = ring /\ lq' = lq]_vars

\* An enqueue of the reserved value has returned false on a queue that
\* holds a value, beside a call of another thread.
EnqueueReservedNoChangeWitness ==
    \E t \in Threads :
        /\ th[t].op = "enq" /\ th[t].pc = "done" /\ th[t].arg \in BadArgs
        /\ th[t].ret = FALSE
        /\ Present > 0
        /\ \E u \in Threads \ {t} : th[u].pc \notin {"idle", "done"}


(***************************************************************************)
(* C25.  Under every interleaving of enter_critical, exit_critical, retire *)
(* and try_reclaim of several threads, calls of try_reclaim beside each    *)
(* other included, the deleter of a retired node does not run while a      *)
(* thread that was inside a critical section when the node was retired is  *)
(* still inside it.                                                        *)
(***************************************************************************)
NoFreeInCriticalSection ==
    \A p \in ebr.freed : ebr.guard[p] = {}


(***************************************************************************)
(* C26.  For every NCQ, SCQ and SCQP ring, whatever enqueues and dequeues  *)
(* are in progress (dequeues on an empty ring and enqueues on a full ring  *)
(* included), every state another thread can read has tail >= head and     *)
(* tail - head <= scqsize.                                                 *)
(***************************************************************************)
RingHeadTail ==
    kind \in {"ncq", "scq", "scqp"} =>
        LET r == ring[1]
            size == IF kind = "ncq" THEN r.capacity_ ELSE r.scqsize_
        IN  r.tail_ >= r.head_ /\ r.tail_ - r.head_ <= size


(***************************************************************************)
(* C27.  In every state of an LSCQ the node tail_ points to is reached     *)
(* from the node head_ points to by following next: the list is a chain    *)
(* from head to tail that is not empty, and head never moves past tail.    *)
(***************************************************************************)
RECURSIVE ChainFrom(_, _)
ChainFrom(n, k) ==
    IF n = nullptr \/ k = 0 THEN {} ELSE {n} \cup ChainFrom(lq.next[n], k - 1)

HeadReachesTail ==
    kind = "lscq" /\ ~Destroying => lq.tail_ \in ChainFrom(lq.head_, MaxNodes)


(***************************************************************************)
(* C28.  In every state, a node of an LSCQ whose finalized flag is true    *)
(* has a next node, or exactly one producer, the winner of the flag's CAS, *)
(* is taking a node from the pool and linking it; no other producer takes  *)
(* or links a successor for that node.                                     *)
(***************************************************************************)
\* The producers between the won CAS on n's flag and the CAS on n's next.
Installers(n) ==
    {t \in Threads : th[t].node = n
                        /\ th[t].pc \in {"lscq_e_get", "lscq_e_prep_n", "lscq_e_prep_f",
                                          "lscq_e_reset", "lscq_e_link"}}

\* The nodes of the list: those on the chains from head_ and from tail_.
Linked == ChainFrom(lq.head_, MaxNodes) \cup ChainFrom(lq.tail_, MaxNodes)

FinalizedSealed ==
    [][\A t \in Threads :
          (/\ kind = "lscq" /\ th[t].op = "enq" /\ th[t].n # 0
           /\ th'[t] # th[t]
           /\ lq.finalized[th[t].n])
              => ring'[th[t].n].entries = ring[th[t].n].entries]_vars


(***************************************************************************)
(* C30.  A node that dequeue has returned to the pool of an LSCQ holds no  *)
(* undelivered pointer, and while it is in the pool no operation enqueues  *)
(* into it, dequeues from it, or reads or CASes head, tail or next with    *)
(* it: the pool and the guard of the operations make recycling safe.       *)
(***************************************************************************)
\* The nodes that are in a shard of the pool.
Pooled == UNION {{lq.pool_[s][i] : i \in DOMAIN lq.pool_[s]} : s \in Shards}

\* The positions inside SCQP<T>::enqueue, dequeue and fixState.
RingPcs ==
    {"scqp_enq", "scqp_e_cas", "scqp_e_count", "scqp_e_deqs", "scqp_e_enqs",
     "scqp_e_faa", "scqp_e_head", "scqp_e_load", "scqp_e_parr", "scqp_e_thr",
     "scqp_e_undo", "scqp_deq", "scqp_d_cas", "scqp_d_chk_h", "scqp_d_chk_t",
     "scqp_d_count", "scqp_d_faa", "scqp_d_load", "scqp_d_now_h", "scqp_d_now_t",
     "scqp_d_store", "scqp_d_sub", "scqp_d_tail", "scqp_d_xchg", "scqp_d_xidx",
     "scqp_d_xside", "fix_h", "fix_t", "fix_cas"}

\* The node that the next step of thread t reads or writes through the
\* tail or head it loaded, 0 if that step touches no such node.
NodeInUse(t) ==
    IF th[t].pc \in RingPcs THEN th[t].n
    ELSE IF th[t].pc = "lscq_e_fin" THEN (IF th[t].ret = TRUE THEN 0 ELSE th[t].node)
    ELSE IF th[t].pc = "lscq_d_next" THEN (IF th[t].ret # nullptr THEN 0 ELSE th[t].node)
    ELSE IF th[t].pc \in {"lscq_e_link", "lscq_e_next", "lscq_e_adv", "lscq_d_fin",
                          "lscq_d_empty_h", "lscq_d_empty_t", "lscq_d_adv"}
    THEN th[t].node
    ELSE 0

RecycledUntouched ==
    /\ [](kind = "lscq" /\ ~Destroying => \A n \in Pooled : SlotsEmpty(ring[n]))
    /\ [][\A t \in Threads :
             (kind = "lscq" /\ ~Destroying /\ th'[t] # th[t])
                 => NodeInUse(t) \notin Pooled]_vars


(***************************************************************************)
(* C31.  In an LSCQ a node's next pointer is installed at most once per    *)
(* time the node is linked, head_ only moves forward along next, and the   *)
(* list reached from head_ has no cycle, also when drained nodes are taken *)
(* from the pool, reset and linked again.                                  *)
(***************************************************************************)
\* Following next from head_ ends at nullptr within MaxNodes nodes.
RECURSIVE EndsFrom(_, _)
EndsFrom(n, k) ==
    IF n = nullptr THEN TRUE ELSE IF k = 0 THEN FALSE ELSE EndsFrom(lq.next[n], k - 1)

ListAcyclic ==
    /\ [](kind = "lscq" /\ ~Destroying => EndsFrom(lq.head_, MaxNodes))
    /\ [][kind = "lscq" /\ ~Destroying =>
             /\ lq'.head_ # lq.head_ => lq'.head_ = lq.next[lq.head_]
             /\ \A n \in Nodes :
                   lq'.next[n] # lq.next[n] =>
                       \/ lq.next[n] = nullptr
                       \/ /\ lq'.next[n] = nullptr
                          /\ n \notin ChainFrom(lq.head_, MaxNodes)]_vars


(***************************************************************************)
(* C32.  An enqueue or a dequeue on an LSCQ only spins a bounded number of *)
(* times: a thread that keeps taking its steps returns from its call,      *)
(* whether or not the other threads take another step (while tickets are   *)
(* left below MaxTicket).                                                  *)
(***************************************************************************)
\* Thread t is inside enqueue or dequeue.
InCall(t) == th[t].op \in {"enq", "deq"} /\ th[t].pc \notin {"idle", "done"}

\* A ring has handed out its last ticket.
TicketsUsedUp == \E n \in Nodes : ring[n].head_ >= MaxTicket \/ ring[n].tail_ >= MaxTicket

BoundedSpin ==
    \A t \in Threads :
        WF_vars(StallStep(t)) => (InCall(t) ~> (th[t].pc = "done" \/ TicketsUsedUp))


(***************************************************************************)
(* C33.  For every slot of a ring (NCQ, SCQ, SCQP), a value is published   *)
(* only into an empty slot and only with a cycle strictly greater than the *)
(* slot's cycle; the only step that changes the value of an occupied slot  *)
(* is the dequeue that consumes it and restores the empty marker; an       *)
(* enqueue never overwrites a value that has not been dequeued.            *)
(***************************************************************************)
\* The cycle of slot i of ring r.
SlotCycle(r, i) ==
    IF r.cls = "ncq" THEN r.entries[i].cycle_flags
    ELSE unpack_cycle(r.entries[i].cycle_flags)

\* Slot i of an NCQ holds the value of a ticket that head_ has not passed.
NcqUndelivered(r, i) ==
    \E t \in (SlotCycle(r, i) * r.capacity_)..((SlotCycle(r, i) + 1) * r.capacity_ - 1) :
        NcqSlot(r, t) = i /\ t >= r.head_

\* Slot i of ring r holds no value: the empty marker of its class, or for an
\* NCQ, which has no marker, a value that has been dequeued.
SlotEmpty(r, i) ==
    IF r.cls = "ncq" THEN ~NcqUndelivered(r, i)
    ELSE IF r.cls = "scq" THEN r.entries[i].index_or_ptr = r.bottom_
    ELSE IF r.using_fallback_ THEN r.entries[i].index_or_ptr = kEmptyIndex
    ELSE r.entries[i].index_or_ptr = nullptr

\* What a step may do to slot i of ring n.
SlotStep(n, i) ==
    IF SlotEmpty(ring[n], i)
    THEN \/ ring'[n].entries[i].index_or_ptr = ring[n].entries[i].index_or_ptr
         \/ SlotCycle(ring[n], i) < SlotCycle(ring'[n], i)
    ELSE \/ /\ ring'[n].cls # "ncq"
            /\ SlotEmpty(ring'[n], i)
            /\ \E t \in Threads : th[t].op = "deq" /\ th'[t] # th[t]
         \/ /\ ring'[n].entries[i].index_or_ptr = ring[n].entries[i].index_or_ptr
            /\ SlotCycle(ring'[n], i) = SlotCycle(ring[n], i)

SlotTransitions ==
    [][(kind \in {"ncq", "scq", "scqp", "lscq"}) =>
          \A n \in Nodes : \A i \in DOMAIN ring[n].entries :
              (i \in DOMAIN ring'[n].entries /\ ring'[n].entries[i] # ring[n].entries[i])
                  => SlotStep(n, i)]_vars


(***************************************************************************)
(* C34.  SCQ and SCQP: the is_safe bit of a slot goes from true to false   *)
(* only in the step of a dequeue that has found the slot at a cycle other  *)
(* than its ticket's cycle, and every successful enqueue into a slot,      *)
(* whatever the bit was, leaves the bit true.                              *)
(***************************************************************************)
IsSafe(n, i) == unpack_is_safe(ring[n].entries[i].cycle_flags)

\* Thread t is a dequeue at its cas2 on slot i of ring n, holding a ticket of
\* another cycle than the slot's.
DeqCycleMismatch(t, n, i) ==
    /\ th[t].op = "deq"
    /\ th[t].pc \in {"scq_d_cas", "scqp_d_cas"}
    /\ th[t].n = n
    /\ Slot(ring[n], th[t].tk) = i
    /\ Cycle(ring[n], th[t].tk) # SlotCycle(ring[n], i)

\* Thread t is an enqueue at its cas2 on slot i of ring n.
EnqAtSlot(t, n, i) ==
    /\ th[t].pc \in {"scq_e_cas", "scqp_e_cas"}
    /\ th[t].n = n
    /\ Slot(ring[n], th[t].tk) = i

IsSafeStep(n, i) ==
    /\ (IsSafe(n, i) /\ ~unpack_is_safe(ring'[n].entries[i].cycle_flags)) =>
            \E t \in Threads : DeqCycleMismatch(t, n, i) /\ th'[t] # th[t]
    /\ \A t \in Threads :
            (EnqAtSlot(t, n, i) /\ th'[t] # th[t] /\ ring'[n].entries[i] # ring[n].entries[i])
                => unpack_is_safe(ring'[n].entries[i].cycle_flags)

IsSafeTransitions ==
    [][(kind \in {"scq", "scqp", "lscq"}) =>
          \A n \in Nodes : \A i \in DOMAIN ring[n].entries :
              i \in DOMAIN ring'[n].entries => IsSafeStep(n, i)]_vars

\* An enqueue has just published into a slot whose is_safe bit was false.
IsSafeTransitionsWitness ==
    /\ kind \in {"scq", "scqp", "lscq"}
    /\ \E t \in Threads :
          /\ th[t].pc \in {"scq_e_thr", "scqp_e_thr"}
          /\ ~unpack_is_safe(th[t].ent.cycle_flags)
          /\ IsSafe(th[t].n, Slot(ring[th[t].n], th[t].tk))


(***************************************************************************)
(* C35.  An SCQ dequeue spins on one slot for a bounded time only: when it *)
(* finds the slot of its ticket at the ticket's cycle with is_safe false,  *)
(* its own steps take it out of the inner loop even if no other thread     *)
(* takes a step.  A dequeue at the load of its slot therefore always has a *)
(* step that changes the state.                                            *)
(***************************************************************************)
SlotSpinEnds ==
    kind = "scq" =>
        \A t \in Threads :
            th[t].pc = "scq_d_load" => ENABLED <<ScqDeqLoad(t)>>_vars


(***************************************************************************)
(* C36.  SCQP dequeue, both modes: on a slot at the ticket's cycle that    *)
(* holds a value with is_safe false the inner loop retries at most         *)
(* MAX_INNER_RETRIES times; the safety valve then ends the inner loop and  *)
(* the call never reads the slot again with that ticket.                   *)
(* ValveRetickets is the statement that the call always goes on with a     *)
(* fresh head ticket: it does not return while it holds the ticket of the  *)
(* slot it gave up.  ValveEndsLoop is the statement that the call goes on  *)
(* as after an empty slot: it reaches the load of a slot only with a fresh *)
(* ticket, and it may return nullptr instead.                              *)
(***************************************************************************)
\* The slot of thread t's ticket holds a value at the ticket's cycle with
\* IsSafe clear.
UnsafeAtTicket(t) ==
    LET r == ring[th[t].n]
        e == r.entries[Slot(r, th[t].tk)]
    IN  /\ r.cls = "scqp"
        /\ unpack_cycle(e.cycle_flags) = Cycle(r, th[t].tk)
        /\ e.index_or_ptr # ScqpEmpty(r)
        /\ ~unpack_is_safe(e.cycle_flags)

\* The steps of SCQP's dequeue after the inner loop.
AfterInnerLoop ==
    {"scqp_d_tail", "scqp_d_sub", "scqp_d_now_h", "scqp_d_now_t", "fix_h", "fix_t", "fix_cas"}

ValveFired(t) ==
    th[t].pc = "scqp_d_tail" /\ th[t].inner_retries > MAX_INNER_RETRIES

RingQuiet(n) ==
    /\ kind \in {"scq", "scqp", "lscq"}
    /\ \A i \in DOMAIN ring[n].entries : SlotEmpty(ring[n], i)
    /\ \A t \in Threads : th[t].op # "enq"

\* Thread t is at the first step of a dequeue on ring n.
DeqStarts(t, n) == th[t].pc \in {"scq_deq", "scqp_deq"} /\ th[t].n = n

ThresholdResetOf(r) ==
    IF r.cls = "scq" THEN ScqThresholdReset(r) ELSE ScqpThresholdReset(r)

ThresholdFastExitStep(n) ==
    /\ \A t \in Threads :
          /\ (DeqStarts(t, n) /\ ring[n].threshold_ < 0 /\ th'[t] # th[t])
                => th'[t].pc \in {"scq_d_chk_h", "scqp_d_chk_h"}
          /\ (th[t].pc \in {"scq_d_chk_h", "scqp_d_chk_h"} /\ th[t].n = n /\ th'[t] # th[t])
                => th'[t].pc \in {"scq_d_chk_t", "scqp_d_chk_t"} /\ ring' = ring
          /\ (th[t].pc \in {"scq_d_chk_t", "scqp_d_chk_t"} /\ th[t].n = n
                /\ ring[n].tail_ <= th[t].head_now /\ th'[t] # th[t])
                => th'[t].pc = th[t].cont /\ ring' = ring
          /\ (th[t].pc \in {"scq_d_sub", "scqp_d_sub"} /\ th[t].n = n /\ th'[t] # th[t])
                => ring'[n].threshold_ = ring[n].threshold_ - 1
    /\ ring'[n].threshold_ > ring[n].threshold_
          => /\ ring'[n].threshold_ = ThresholdResetOf(ring[n])
             /\ \E t \in Threads :
                   /\ th'[t] # th[t]
                   /\ th[t].op = "enq" \/ th[t].pc \in {"scq_d_store", "scqp_d_store"}

DeqWithTicket ==
    {"scq_d_tail", "scq_d_sub", "scq_d_now_h", "scq_d_now_t", "scq_d_store",
     "scqp_d_tail", "scqp_d_sub", "scqp_d_now_h", "scqp_d_now_t", "scqp_d_store",
     "fix_h", "fix_t", "fix_cas"}

FixStateRestores ==
    [][(kind \in {"scq", "scqp", "lscq"}) =>
          \A t \in Threads :
              (th[t].op = "deq" /\ th[t].pc \in DeqWithTicket /\ th'[t].pc = th[t].cont)
                  => th[t].tk - ring'[th[t].n].tail_ <= ring[th[t].n].scqsize_]_vars


(***************************************************************************)
(* C39.  SCQP::is_empty() returns a value that was right at some instant   *)
(* of the call.  In a call whose two loads run with no step of another     *)
(* thread between its start and its return the ring does not change, so    *)
(* such a call returns true exactly if no slot of the ring holds a pointer.*)
(***************************************************************************)
IsEmptySnapshot ==
    kind = "lscq" =>
        \A t \in Threads :
            th[t].pc = "lscq_d_empty_h" =>
                (is_empty(ring[th[t].node]) <=> SlotsEmpty(ring[th[t].node]))


(***************************************************************************)
(* The NCQ with two producers that enqueue at the same time and may stop   *)
(* anywhere: no thread is required to take its next step; only the join of *)
(* a phase is certain to return.                                           *)
(***************************************************************************)
\* Two enqueues beside each other, alone or beside a dequeue; then the ring
\* is drained.
HelpProgs ==
    { Progs(<<"enq">> \o S \o Rep("deq", 3), <<"enq">> \o S, S),
      Progs(<<"enq">> \o S \o Rep("deq", 3), <<"enq">> \o S, <<"deq">> \o S) }

HelpInit ==
    /\ kind = "ncq"
    /\ \E capacity \in 1..MaxScqSizeArg :
          ring = [n \in Nodes |-> NcqNew(capacity)]
    /\ lq = LscqNone
    /\ th = [t \in Threads |-> Idle]
    /\ prog \in HelpProgs
    /\ hist = HistInit
    /\ opool = PoolNone
    /\ pt = [t \in Threads |-> PoolThread({}, FALSE)]
    /\ slot = SlotNone
    /\ ct = [t \in Threads |-> << >>]
    /\ ebr = EbrNone
    /\ et = [t \in Threads |-> << >>]

HelpStep(self) ==
    \/ Invoke(self)
    \/ Respond(self)
    \/ NcqStep(self)

HelpNext ==
    \/ Sync
    \/ \E self \in Threads : HelpStep(self)

SpecHelp ==
    /\ HelpInit
    /\ [][HelpNext]_vars
    /\ WF_vars(Sync)

(***************************************************************************)
(* C40.  NCQ: while a producer is stopped after it has written its slot    *)
(* and before it has advanced tail, the enqueue of another producer finds  *)
(* the slot at the cycle of tail, helps tail forward, stores its value in  *)
(* a later slot and returns; the value of the stopped producer and the     *)
(* value of the helper are each returned by exactly one dequeue.           *)
(***************************************************************************)
\* The step of thread t that moves tail_.  compare_exchange_weak may fail
\* although tail_ has the expected value, but not every time it is tried.
TailCasWins(t) ==
    /\ th[t].pc \in {"ncq_e_help", "ncq_e_adv"}
    /\ HelpStep(t)
    /\ ring'[1].tail_ # ring[1].tail_

\* The number of dequeues that have returned v.
TimesGot(v) ==
    Cardinality(UNION {{<<t, i>> : i \in {j \in DOMAIN hist.got[t] : hist.got[t][j] = v}} :
                          t \in Threads})

\* Every call of the test has returned.
TestOver == \A t \in Threads : prog[t] = << >> /\ th[t].pc = "idle"

HelpAdvanceTail ==
    /\ [][\A t \in Threads :
            /\ (th[t].pc = "ncq_e_load" /\ th'[t] # th[t]
                  /\ ring[1].entries[NcqSlot(ring[1], th[t].tk)].cycle_flags
                        = NcqCycle(ring[1], th[t].tk))
                    => th'[t].pc = "ncq_e_help"
            /\ (th[t].pc = "ncq_e_help" /\ th'[t] # th[t])
                    => /\ th'[t].pc = "ncq_e_tail"
                       /\ ring'[1].tail_ \in {ring[1].tail_, th[t].tk + 1}
                       /\ ring'[1].entries = ring[1].entries
            /\ (th[t].pc = "ncq_e_cas" /\ th'[t] # th[t] /\ ring'[1] # ring[1])
                    => \A u \in Threads \ {t} :
                          th[u].pc = "ncq_e_adv" => th[t].tk > th[u].tk]_vars
    /\ [](\A v \in Sent \cup Got : TimesGot(v) <= 1)
    /\ [](TestOver => \A v \in Sent : TimesGot(v) = 1)
    /\ \A t \in Threads :
          (WF_vars(HelpStep(t)) /\ SF_vars(TailCasWins(t)))
              => ((th[t].op = "enq" /\ th[t].pc \notin {"idle", "done"}) ~> th[t].pc = "done")

\* A producer is stopped between its write and its move of tail_, and the
\* enqueue of another producer has returned true with its value in the next
\* slot.
HelpAdvanceTailWitness ==
    \E t \in Threads : \E u \in Threads \ {t} :
        /\ th[u].pc = "ncq_e_adv"
        /\ ring[1].entries[NcqSlot(ring[1], th[u].tk)] = Entry(NcqCycle(ring[1], th[u].tk), th[u].arg)
        /\ th[t].op = "enq" /\ th[t].pc = "done" /\ th[t].ret = TRUE
        /\ ring[1].entries[NcqSlot(ring[1], th[u].tk + 1)]
              = Entry(NcqCycle(ring[1], th[u].tk + 1), th[t].arg)

=============================================================================
